---- MODULE Spec2Model ----
(***************************************************************************)
(* mpegi: tag readers for MPEG audio files.                                *)
(*                                                                         *)
(* Two Tag classes are modelled: frames.Tag (get, get_stream, get_v1,      *)
(* get_v2) and metadata.Tag (content_v1, content_v2), together with the    *)
(* Frames decoders each of them dispatches to.  Bytes are integers 0..255, *)
(* a bytes object is a sequence of them, a str is a sequence of code       *)
(* points, None is the value None below.                                   *)
(***************************************************************************)
EXTENDS Integers, Sequences, FiniteSets, TLC

VARIABLES
    file,       \* the bytes of the audio file
    cls,        \* which Tag class is in use: "frames" or "metadata"
    handle,     \* self.stream: "none", "open" or "closed"
    pos,        \* position of self.stream
    pc,         \* "new", "idle", "walk" (inside the while loop) or "closed"
    call,       \* the method that is running or ran last
    ncalls,     \* number of method calls made on this Tag
    v1arg,      \* the bytes handed to the legacy decoder (headerv1 / header)
    v1res,      \* get_v1's value kept while get_v2 runs (Tag.get, both tags)
    hdr2,       \* the 10-byte chunked header handed to get_v2 / content_v2
    tag_body,   \* get_v2 / content_v2: tag_body
    idx,        \* get_v2 / content_v2: idx
    metadata,   \* get_v2 / content_v2: metadata, the header fields
    frames,     \* get_v2: the 4-character keys of metadata; content_v2: frames
    visited,    \* history: the offsets at which a record header was read
    last,       \* history: what the last loop iteration did
    result,     \* value returned (or error raised) by the last call that ended
    sizeb,      \* synchsafe codec: the four size bytes
    sizes,      \* synchsafe codec: the decoded sizes
    instance,   \* decoders: the arguments of Frames(body, id, size)
    processed   \* decoders: what process_frame gave for instance

vars == <<file, cls, handle, pos, pc, call, ncalls, v1arg, v1res, hdr2,
          tag_body, idx, metadata, frames, visited, last, result, sizeb, sizes,
          instance, processed>>

tagvars == <<file, cls, handle, pos, pc, call, ncalls, v1arg, v1res, hdr2,
             tag_body, idx, metadata, frames, visited, last, result,
             instance, processed>>

(***************************************************************************)
(* Python primitives                                                       *)
(***************************************************************************)
None == <<-1>>

Min(a, b) == IF a < b THEN a ELSE b

\* s[a:b] for 0 <= a, 0 <= b (Python clamps both ends to len(s))
Slice(s, a, b) ==
    IF a >= Len(s) \/ b <= a THEN << >> ELSE SubSeq(s, a + 1, Min(b, Len(s)))

\* s[a:]
SliceFrom(s, a) == Slice(s, a, Len(s))

RECURSIVE Pow2(_)
Pow2(n) == IF n = 0 THEN 1 ELSE 2 * Pow2(n - 1)

\* a & b on non-negative integers
RECURSIVE BitAnd(_, _)
BitAnd(a, b) ==
    IF a = 0 \/ b = 0 THEN 0
    ELSE (a % 2) * (b % 2) + 2 * BitAnd(a \div 2, b \div 2)

\* a | b on non-negative integers
RECURSIVE BitOr(_, _)
BitOr(a, b) ==
    IF a = 0 THEN b
    ELSE IF b = 0 THEN a
    ELSE (IF a % 2 = 1 \/ b % 2 = 1 THEN 1 ELSE 0) + 2 * BitOr(a \div 2, b \div 2)

\* a << n and a >> n
Shl(a, n) == a * Pow2(n)
Shr(a, n) == a \div Pow2(n)

\* int.from_bytes(b, byteorder="big")
RECURSIVE from_bytes_big(_)
from_bytes_big(b) ==
    IF b = << >> THEN 0
    ELSE 256 * from_bytes_big(SubSeq(b, 1, Len(b) - 1)) + b[Len(b)]

\* m[k] = v on a dict
Put(m, k, v) == [y \in DOMAIN m \cup {k} |-> IF y = k THEN v ELSE m[y]]

EmptyDict == << >>

(***************************************************************************)
(* Synchsafe size: Tag.get_v2, Tag.content_v2 and utils.frame_header       *)
(***************************************************************************)
\* the four bytes read as 8 bits each, not 7
synchsafe_as_bytes(stream) ==
    BitOr(BitOr(BitOr(Shl(BitAnd(stream[7], 127), 24),
                      Shl(BitAnd(stream[8], 127), 16)),
                Shl(BitAnd(stream[9], 127), 8)),
          BitAnd(stream[10], 127))

\* frames.py Tag.get_v2: size from the 10-byte header
synchsafe_get_v2(stream) ==
    BitOr(BitOr(BitOr(Shl(BitAnd(stream[7], 127), 21),
                      Shl(BitAnd(stream[8], 127), 14)),
                Shl(BitAnd(stream[9], 127), 7)),
          BitAnd(stream[10], 127))

\* metadata.py Tag.content_v2: size from the 10-byte header
synchsafe_content_v2(stream) ==
    BitOr(BitOr(BitOr(Shl(BitAnd(stream[7], 127), 21),
                      Shl(BitAnd(stream[8], 127), 14)),
                Shl(BitAnd(stream[9], 127), 7)),
          BitAnd(stream[10], 127))

\* utils.py frame_header: size from the four bytes read at offset 6
synchsafe_frame_header(b) ==
    BitOr(BitOr(BitOr(Shl(BitAnd(b[1], 127), 21),
                      Shl(BitAnd(b[2], 127), 14)),
                Shl(BitAnd(b[3], 127), 7)),
          BitAnd(b[4], 127))

(***************************************************************************)
(* bytes and str methods                                                   *)
(***************************************************************************)
\* body.replace(b"\xFF\x00", b"\xFF"): left to right, non-overlapping
RECURSIVE rm_unsync(_)
rm_unsync(body) ==
    IF Len(body) < 2 THEN body
    ELSE IF body[1] = 255 /\ body[2] = 0
         THEN <<255>> \o rm_unsync(SliceFrom(body, 2))
         ELSE <<body[1]>> \o rm_unsync(SliceFrom(body, 1))

\* index of the first 0x00 in b (0-based), Len(b) when there is none
RECURSIVE FindNul(_)
FindNul(b) ==
    IF b = << >> \/ b[1] = 0 THEN 0 ELSE 1 + FindNul(Tail(b))

\* b.partition(b"\x00"): (before, separator, after)
partition_nul(b) ==
    LET k == FindNul(b) IN
    IF k = Len(b) THEN <<b, << >>, << >> >>
    ELSE <<Slice(b, 0, k), <<0>>, SliceFrom(b, k + 1)>>

\* s.replace("\x00", "")
replace_nul(s) == SelectSeq(s, LAMBDA c : c # 0)

\* str.isspace() for one character
IsSpace(c) ==
    \/ c \in 9..13 \/ c \in 28..32 \/ c = 133 \/ c = 160 \/ c = 5760
    \/ c \in 8192..8202 \/ c \in {8232, 8233, 8239, 8287, 12288}

RECURSIVE lstrip(_)
lstrip(s) == IF s # << >> /\ IsSpace(s[1]) THEN lstrip(Tail(s)) ELSE s

RECURSIVE rstrip(_)
rstrip(s) ==
    IF s # << >> /\ IsSpace(s[Len(s)]) THEN rstrip(SubSeq(s, 1, Len(s) - 1)) ELSE s

\* s.strip()
strip(s) == rstrip(lstrip(s))

RECURSIVE lstrip_nul(_)
lstrip_nul(b) == IF b # << >> /\ b[1] = 0 THEN lstrip_nul(Tail(b)) ELSE b

RECURSIVE rstrip_nul(_)
rstrip_nul(b) ==
    IF b # << >> /\ b[Len(b)] = 0 THEN rstrip_nul(SubSeq(b, 1, Len(b) - 1)) ELSE b

\* b.strip(b"\x00")
strip_nul(b) == rstrip_nul(lstrip_nul(b))

\* str(n) for n >= 0
RECURSIVE str_int(_)
str_int(n) ==
    IF n < 10 THEN <<48 + n>> ELSE str_int(n \div 10) \o <<48 + (n % 10)>>

HexDigit(d) == IF d < 10 THEN 48 + d ELSE 87 + d

\* f"{flags:02x}" for a byte
fmt_02x(n) == <<HexDigit(n \div 16), HexDigit(n % 16)>>

\* f"{flags:08b}" for a byte
fmt_08b(n) == [i \in 1..8 |-> 48 + (Shr(n, 8 - i) % 2)]

(***************************************************************************)
(* Codecs: bytes.decode(encoding, errors).  A decode yields                *)
(* [ok |-> TRUE, s |-> str] or, under errors="strict", DecodeError.        *)
(***************************************************************************)
DecodeError == [ok |-> FALSE, s |-> << >>]

Decoded(s) == [ok |-> TRUE, s |-> s]

\* "ISO-8859-1": every byte is the code point of its value
decode_latin1(b) == Decoded(b)

\* "ascii", strict
decode_ascii(b) ==
    IF \A i \in 1..Len(b) : b[i] < 128 THEN Decoded(b) ELSE DecodeError

IsCont(c) == c \in 128..191

\* number of continuation bytes a UTF-8 lead byte announces, -1 for no lead
Utf8Need(c) ==
    IF c \in 194..223 THEN 1
    ELSE IF c \in 224..239 THEN 2
    ELSE IF c \in 240..244 THEN 3
    ELSE -1

\* the second byte of a sequence is restricted for some lead bytes
Utf8Second(c, d) ==
    IF c = 224 THEN d \in 160..191
    ELSE IF c = 237 THEN d \in 128..159
    ELSE IF c = 240 THEN d \in 144..191
    ELSE IF c = 244 THEN d \in 128..143
    ELSE IsCont(d)

\* how many bytes of the sequence starting at b[1] are well formed (lead
\* included), given that b[1] is a lead byte
RECURSIVE Utf8Good(_, _)
Utf8Good(b, k) ==
    IF k > Utf8Need(b[1]) + 1 \/ k > Len(b) THEN k - 1
    ELSE IF (k = 2 /\ Utf8Second(b[1], b[2])) \/ (k > 2 /\ IsCont(b[k]))
         THEN Utf8Good(b, k + 1)
         ELSE k - 1

Utf8Point(b, n) ==
    IF n = 1 THEN (b[1] % 32) * 64 + (b[2] % 64)
    ELSE IF n = 2 THEN (b[1] % 16) * 4096 + (b[2] % 64) * 64 + (b[3] % 64)
    ELSE (b[1] % 8) * 262144 + (b[2] % 64) * 4096 + (b[3] % 64) * 64 + (b[4] % 64)

\* "utf-8"; ignore = TRUE for errors="ignore", FALSE for errors="strict"
RECURSIVE decode_utf8(_, _)
decode_utf8(b, ignore) ==
    IF b = << >> THEN Decoded(<< >>)
    ELSE IF b[1] < 128 THEN
        LET r == decode_utf8(Tail(b), ignore) IN
        IF r.ok THEN Decoded(<<b[1]>> \o r.s) ELSE r
    ELSE IF Utf8Need(b[1]) = -1 THEN
        IF ignore THEN decode_utf8(Tail(b), ignore) ELSE DecodeError
    ELSE
        LET n == Utf8Need(b[1])
            g == Utf8Good(b, 2)
        IN  IF g = n + 1 THEN
                LET r == decode_utf8(SliceFrom(b, g), ignore) IN
                IF r.ok THEN Decoded(<<Utf8Point(b, n)>> \o r.s) ELSE r
            ELSE IF ~ignore THEN DecodeError
            ELSE decode_utf8(SliceFrom(b, g), ignore)

\* one UTF-16 code unit from two bytes
Unit16(b, i, be) == IF be THEN b[i] * 256 + b[i + 1] ELSE b[i + 1] * 256 + b[i]

\* UTF-16 code units to code points, surrogate pairs combined
RECURSIVE decode_utf16_units(_, _, _)
decode_utf16_units(b, be, ignore) ==
    IF b = << >> THEN Decoded(<< >>)
    ELSE IF Len(b) = 1 THEN (IF ignore THEN Decoded(<< >>) ELSE DecodeError)
    ELSE
        LET u == Unit16(b, 1, be) IN
        IF u \notin 55296..57343 THEN
            LET r == decode_utf16_units(SliceFrom(b, 2), be, ignore) IN
            IF r.ok THEN Decoded(<<u>> \o r.s) ELSE r
        ELSE IF u \in 55296..56319 /\ Len(b) >= 4
                /\ Unit16(b, 3, be) \in 56320..57343 THEN
            LET r == decode_utf16_units(SliceFrom(b, 4), be, ignore) IN
            IF r.ok
            THEN Decoded(<<65536 + (u - 55296) * 1024 + (Unit16(b, 3, be) - 56320)>>
                         \o r.s)
            ELSE r
        ELSE IF ~ignore THEN DecodeError
        ELSE IF u \in 55296..56319 /\ Len(b) < 4 THEN Decoded(<< >>)
        ELSE decode_utf16_units(SliceFrom(b, 2), be, ignore)

\* "utf-16-be": big endian, a byte order mark is not interpreted
decode_utf16_be(b, ignore) == decode_utf16_units(b, TRUE, ignore)

\* "utf-16": a leading FF FE / FE FF selects the byte order and is dropped,
\* without one the platform's order (little endian) is used
decode_utf16(b, ignore) ==
    IF Len(b) >= 2 /\ b[1] = 255 /\ b[2] = 254
    THEN decode_utf16_units(SliceFrom(b, 2), FALSE, ignore)
    ELSE IF Len(b) >= 2 /\ b[1] = 254 /\ b[2] = 255
    THEN decode_utf16_units(SliceFrom(b, 2), TRUE, ignore)
    ELSE decode_utf16_units(b, FALSE, ignore)

\* bytes.decode(encoding, errors) by codec name
decode(b, encoding, ignore) ==
    IF encoding = "ISO-8859-1" THEN decode_latin1(b)
    ELSE IF encoding = "utf-16" THEN decode_utf16(b, ignore)
    ELSE IF encoding = "utf-16-be" THEN decode_utf16_be(b, ignore)
    ELSE decode_utf8(b, ignore)

(***************************************************************************)
(* String literals of the program, as code points                          *)
(***************************************************************************)
ID_TXXX == <<84, 88, 88, 88>>

ID_WXXX == <<87, 88, 88, 88>>

ID_MCDI == <<77, 67, 68, 73>>

ID_TFLT == <<84, 70, 76, 84>>

ID_COMM == <<67, 79, 77, 77>>

ID_USLT == <<85, 83, 76, 84>>

ID_APIC == <<65, 80, 73, 67>>

ID_SYTC == <<83, 89, 84, 67>>

ID_SYLT == <<83, 89, 76, 84>>

ID_MLLT == <<77, 76, 76, 84>>

ID_ETCO == <<69, 84, 67, 79>>

ID_TIT2 == <<84, 73, 84, 50>>

ID_WOAR == <<87, 79, 65, 82>>

NotImplemented == <<78,111,116,32,73,109,112,108,101,109,101,110,116,101,100>>

\* str.lower() on ASCII text
lower(s) == [i \in 1..Len(s) |-> IF s[i] \in 65..90 THEN s[i] + 32 ELSE s[i]]

\* str.startswith
startswith(s, p) == Len(s) >= Len(p) /\ SubSeq(s, 1, Len(p)) = p

(***************************************************************************)
(* Lookup tables of mpegi.namespace / mpegi.ptypes (not among the sources): *)
(* PICTURE_TYPE is the fixed picture-type table, indexed from zero; an     *)
(* entry is written <<i>>.                                                 *)
(***************************************************************************)
PictureTypeCount == 21

PICTURE_TYPE_has(i) == i \in 0..(PictureTypeCount - 1)

PICTURE_TYPE(i) == <<i>>

(***************************************************************************)
(* frames.py: class Frames.  What a method gives back:                     *)
(*   kind "tuple": (id, v), v a str (shape "text") or a tuple of str        *)
(*   kind "str": the string v   kind "None"   kind "raise": exception err  *)
(* write is the image file _apic wrote, << >> when it wrote none.          *)
(***************************************************************************)
RetTuple(id, v) ==
    [kind |-> "tuple", shape |-> "tuple", id |-> id, v |-> v, err |-> "", write |-> << >>]

RetText(id, s) ==
    [kind |-> "tuple", shape |-> "text", id |-> id, v |-> s, err |-> "", write |-> << >>]

RetStr(s) ==
    [kind |-> "str", shape |-> "text", id |-> << >>, v |-> s, err |-> "", write |-> << >>]

RetNone ==
    [kind |-> "None", shape |-> "", id |-> << >>, v |-> << >>, err |-> "", write |-> << >>]

RetRaise(e) ==
    [kind |-> "raise", shape |-> "", id |-> << >>, v |-> << >>, err |-> e, write |-> << >>]

\* Frames.__init__ (body is not empty: body[0] is read)
Frames_init(body, id, size, save_image) ==
    [body |-> SliceFrom(body, 1), encoding |-> body[1], full_body |-> body,
     id |-> id, size |-> size, save_image |-> save_image]

\* Frames._encode
_encode(self) ==
    IF self.encoding = 0 THEN "ISO-8859-1"
    ELSE IF self.encoding = 1 THEN "utf-16"
    ELSE IF self.encoding = 2 THEN "utf-16-be"
    ELSE "utf-8"

\* the types table of decode_frame: types.get(information, "Unknown audio type")
TFLT_types(s) ==
    IF s = <<77, 73, 77, 69>> THEN  \* MIME
        <<77,73,77,69,32,116,121,112,101,32,102,111,108,108,111,119,115>>
    ELSE     IF s = <<77, 80, 71>> THEN  \* MPG
        <<77,80,69,71,32,65,117,100,105,111>>
    ELSE     IF s = <<47, 49>> THEN  \* /1
        <<77,80,69,71,32,49,47,50,32,108,97,121,101,114,32,73>>
    ELSE     IF s = <<47, 50>> THEN  \* /2
        <<77,80,69,71,32,49,47,50,32,108,97,121,101,114,32,73,73>>
    ELSE     IF s = <<47, 51>> THEN  \* /3
        <<77,80,69,71,32,49,47,50,32,108,97,121,101,114,32,73,73,73>>
    ELSE     IF s = <<47, 50, 46, 53>> THEN  \* /2.5
        <<77,80,69,71,32,50,46,53>>
    ELSE     IF s = <<47, 65, 65, 67>> THEN  \* /AAC
        <<65,100,118,97,110,99,101,100,32,97,117,100,105,111,32,99,111,109,112,114,101,115,115,105,111,110>>
    ELSE     IF s = <<86, 81, 70>> THEN  \* VQF
        <<84,114,97,110,115,102,111,114,109,45,100,111,109,97,105,110,32,87,101,105,103,104,116,101,100,32,73,110,116,101,114,108,101,97,118,101,32,86,101,99,116,111,114,32,81,117,97,110,116,105,115,97,116,105,111,110>>
    ELSE     IF s = <<80, 67, 77>> THEN  \* PCM
        <<80,117,108,115,101,32,67,111,100,101,32,77,111,100,117,108,97,116,101,100,32,97,117,100,105,111>>
    ELSE 
        <<85,110,107,110,111,119,110,32,97,117,100,105,111,32,116,121,112,101>>  \* Unknown audio type

\* Frames.decode_frame; a failed decode is an exception
decode_frame(self, id) ==
    IF id = ID_TXXX \/ id = ID_WXXX THEN
        LET encoding == _encode(self)
            p == partition_nul(self.body)
            description == decode(p[1], encoding, TRUE)
            text == decode(p[3], encoding, TRUE)
        IN  IF description.ok /\ text.ok
            THEN RetTuple(id, <<strip(description.s), strip(text.s)>>)
            ELSE RetRaise("UnicodeDecodeError")
    ELSE IF id = ID_MCDI
            \/ (startswith(id, <<87>>) /\ ~startswith(id, ID_WXXX) /\ Len(id) = 4) THEN
        LET information ==
                IF id = ID_MCDI THEN decode(self.full_body, _encode(self), TRUE)
                ELSE decode(self.full_body, "ISO-8859-1", TRUE)
        IN  IF information.ok THEN RetText(id, replace_nul(information.s))
            ELSE RetRaise("UnicodeDecodeError")
    ELSE
        LET information == decode(self.body, _encode(self), TRUE) IN
        IF ~information.ok THEN RetRaise("UnicodeDecodeError")
        ELSE IF id = ID_TFLT THEN RetText(id, TFLT_types(replace_nul(information.s)))
        ELSE RetText(id, replace_nul(information.s))

\* the list comprehension of _comm and _uslt: both arms yield the character
printable(s) == [i \in 1..Len(s) |-> IF 32 <= s[i] /\ s[i] <= 126 THEN s[i] ELSE s[i]]

\* Frames._comm
_comm(self) ==
    LET encoding == _encode(self)
        p == partition_nul(SliceFrom(self.body, 3))
        d == decode(p[1], encoding, FALSE)
        description == IF d.ok THEN d.s ELSE None
        t == decode(strip_nul(p[3]), encoding, TRUE)
        ftext == IF t.ok THEN printable(t.s) ELSE None
    IN  RetTuple(self.id, <<description, ftext>>)

\* Frames._etoc
_etoc(self) == RetStr(NotImplemented)

\* Frames._mllt
_mllt(self) == RetStr(NotImplemented)

\* Frames._sytc: reads self.body[0] and self.body[1]
_sytc(self) ==
    IF Len(self.body) < 2 THEN RetRaise("IndexError") ELSE RetStr(NotImplemented)

\* Frames._uslt
_uslt(self) ==
    LET encoding == _encode(self)
        p == partition_nul(SliceFrom(self.body, 3))
        d == decode(p[1], encoding, FALSE)
        description == IF d.ok THEN d.s ELSE None
        t == decode(strip_nul(p[3]), encoding, TRUE)
        lyrics == IF t.ok THEN printable(t.s) ELSE None
    IN  RetTuple(self.id, <<description, lyrics>>)

\* Frames._sylt: reads self.body[3] and self.body[4]
_sylt(self) ==
    IF Len(self.body) < 5 THEN RetRaise("IndexError") ELSE RetStr(NotImplemented)

\* the file _apic writes when save_image is set: <<name, data>>
apic_write(save_image, picture_type, description, picture_data) ==
    IF ~save_image THEN << >>
    ELSE IF picture_type # 2 THEN <<description \o <<46, 106, 112, 103>>, picture_data>>
    ELSE <<description \o <<46, 112, 110, 103>>, picture_data>>

\* Frames._apic
_apic(self) ==
    LET encoding == _encode(self)
        p == partition_nul(self.body)
        mime_type == decode(p[1], "utf-8", FALSE)
        frame_body == p[3]
    IN  IF ~mime_type.ok THEN RetRaise("UnicodeDecodeError")
        ELSE IF frame_body = << >> THEN RetRaise("IndexError")
        ELSE
            LET picture_type == frame_body[1]
                q == partition_nul(SliceFrom(frame_body, 1))
                description == decode(q[1], encoding, FALSE)
                picture_data == q[3]
            IN  IF ~description.ok THEN RetRaise("UnicodeDecodeError")
                ELSE IF ~PICTURE_TYPE_has(picture_type)
                THEN [RetRaise("LookupError") EXCEPT !.write =
                        apic_write(self.save_image, picture_type, description.s,
                                   picture_data)]
                ELSE [RetTuple(self.id, <<mime_type.s, PICTURE_TYPE(picture_type),
                                          description.s>>)
                      EXCEPT !.write =
                        apic_write(self.save_image, picture_type, description.s,
                                   picture_data)]

\* Frames.process_frame
process_frame(self) ==
    LET attr == lower(self.id) IN
    IF attr = lower(ID_COMM) THEN _comm(self)
    ELSE IF attr = <<101, 116, 111, 99>> THEN _etoc(self)
    ELSE IF attr = lower(ID_MLLT) THEN _mllt(self)
    ELSE IF attr = lower(ID_SYTC) THEN _sytc(self)
    ELSE IF attr = lower(ID_USLT) THEN _uslt(self)
    ELSE IF attr = lower(ID_SYLT) THEN _sylt(self)
    ELSE IF attr = lower(ID_APIC) THEN _apic(self)
    ELSE IF self.size < 1 THEN RetNone
    ELSE
        LET data == decode_frame(self, self.id) IN
        IF data.kind = "raise" THEN RetRaise("Invalid Frame Identifier") ELSE data

(***************************************************************************)
(* Lookup table of mpegi.namespace / mpegi.genres (not among the sources): *)
(* GENRES is the fixed genre table, indexed from zero; entry i is written  *)
(* as the one-character string <<1000000 + i>>.                            *)
(***************************************************************************)
GenreCount == 148

GENRES_has(i) == i \in 0..(GenreCount - 1)

GENRES(i) == <<1000000 + i>>

(***************************************************************************)
(* metadata.py: class Frames.  A method gives back kind "dict" with        *)
(* v = [ID, f (the text fields), n (the number and flag fields), Contains, *)
(* PartOf, FrameSize], or kind "str", "None", "raise" as above.            *)
(***************************************************************************)
\* Frames.MAP: identifier -> (category label, method name)
M_MAP ==
       <<67,79,77,77>> :> <<"COMMENTS", "_comm">>  \* COMM
    @@ <<84,73,84,49>> :> <<"TEXT_INFORMATION_FRAMES", "_tit1">>  \* TIT1
    @@ <<84,73,84,50>> :> <<"TEXT_INFORMATION_FRAMES", "_tit2">>  \* TIT2
    @@ <<84,73,84,51>> :> <<"TEXT_INFORMATION_FRAMES", "_tit3">>  \* TIT3
    @@ <<84,65,76,66>> :> <<"TEXT_INFORMATION_FRAMES", "_talb">>  \* TALB
    @@ <<84,79,65,76>> :> <<"TEXT_INFORMATION_FRAMES", "_toal">>  \* TOAL
    @@ <<84,82,67,75>> :> <<"TEXT_INFORMATION_FRAMES", "_trck">>  \* TRCK
    @@ <<84,80,79,83>> :> <<"TEXT_INFORMATION_FRAMES", "_tpos">>  \* TPOS
    @@ <<84,83,83,84>> :> <<"TEXT_INFORMATION_FRAMES", "_tsst">>  \* TSST
    @@ <<84,83,82,67>> :> <<"TEXT_INFORMATION_FRAMES", "_tsrc">>  \* TSRC
    @@ <<84,80,69,49>> :> <<"INVOLVED_PERSONS_FRAMES", "_tpe1">>  \* TPE1
    @@ <<84,80,69,50>> :> <<"INVOLVED_PERSONS_FRAMES", "_tpe2">>  \* TPE2
    @@ <<84,80,69,51>> :> <<"INVOLVED_PERSONS_FRAMES", "_tpe3">>  \* TPE3
    @@ <<84,80,69,52>> :> <<"INVOLVED_PERSONS_FRAMES", "_tpe4">>  \* TPE4
    @@ <<84,79,80,69>> :> <<"INVOLVED_PERSONS_FRAMES", "_tope">>  \* TOPE
    @@ <<84,69,88,84>> :> <<"INVOLVED_PERSONS_FRAMES", "_text">>  \* TEXT
    @@ <<84,79,76,89>> :> <<"INVOLVED_PERSONS_FRAMES", "_toly">>  \* TOLY
    @@ <<84,67,79,77>> :> <<"INVOLVED_PERSONS_FRAMES", "_tcom">>  \* TCOM
    @@ <<84,77,67,76>> :> <<"INVOLVED_PERSONS_FRAMES", "_tmcl">>  \* TMCL
    @@ <<84,73,80,76>> :> <<"INVOLVED_PERSONS_FRAMES", "_tipl">>  \* TIPL
    @@ <<84,69,78,67>> :> <<"INVOLVED_PERSONS_FRAMES", "_tenc">>  \* TENC
    @@ <<84,66,80,77>> :> <<"DERIVED_SUBJECTIVE_PROPERTIES_FRAMES", "_tbpm">>  \* TBPM
    @@ <<84,76,69,78>> :> <<"DERIVED_SUBJECTIVE_PROPERTIES_FRAMES", "_tlen">>  \* TLEN
    @@ <<84,75,69,89>> :> <<"DERIVED_SUBJECTIVE_PROPERTIES_FRAMES", "_tkey">>  \* TKEY
    @@ <<84,76,65,78>> :> <<"DERIVED_SUBJECTIVE_PROPERTIES_FRAMES", "_tlan">>  \* TLAN
    @@ <<84,67,79,78>> :> <<"DERIVED_SUBJECTIVE_PROPERTIES_FRAMES", "_tcon">>  \* TCON
    @@ <<84,70,76,84>> :> <<"DERIVED_SUBJECTIVE_PROPERTIES_FRAMES", "_tflt">>  \* TFLT
    @@ <<84,77,69,68>> :> <<"DERIVED_SUBJECTIVE_PROPERTIES_FRAMES", "_tmed">>  \* TMED
    @@ <<84,77,79,79>> :> <<"DERIVED_SUBJECTIVE_PROPERTIES_FRAMES", "_tmoo">>  \* TMOO
    @@ <<84,67,79,80>> :> <<"RIGHTS_LICENSE_FRAMES", "_tcop">>  \* TCOP
    @@ <<84,80,82,79>> :> <<"RIGHTS_LICENSE_FRAMES", "_tpro">>  \* TPRO
    @@ <<84,80,85,66>> :> <<"RIGHTS_LICENSE_FRAMES", "_tpub">>  \* TPUB
    @@ <<84,79,87,78>> :> <<"RIGHTS_LICENSE_FRAMES", "_town">>  \* TOWN
    @@ <<84,82,83,78>> :> <<"RIGHTS_LICENSE_FRAMES", "_trsn">>  \* TRSN
    @@ <<84,82,83,79>> :> <<"RIGHTS_LICENSE_FRAMES", "_trso">>  \* TRSO
    @@ <<84,79,70,78>> :> <<"OTHER_TEXT_FRAMES", "_tofn">>  \* TOFN
    @@ <<84,68,76,89>> :> <<"OTHER_TEXT_FRAMES", "_tdly">>  \* TDLY
    @@ <<84,68,69,78>> :> <<"OTHER_TEXT_FRAMES", "_tden">>  \* TDEN
    @@ <<84,68,79,82>> :> <<"OTHER_TEXT_FRAMES", "_tdor">>  \* TDOR
    @@ <<84,68,82,67>> :> <<"OTHER_TEXT_FRAMES", "_tdrc">>  \* TDRC
    @@ <<84,89,69,82>> :> <<"OTHER_TEXT_FRAMES", "_tyer">>  \* TYER
    @@ <<84,68,82,76>> :> <<"OTHER_TEXT_FRAMES", "_tdrl">>  \* TDRL
    @@ <<84,68,84,71>> :> <<"OTHER_TEXT_FRAMES", "_tdtg">>  \* TDTG
    @@ <<84,83,83,69>> :> <<"OTHER_TEXT_FRAMES", "_tsse">>  \* TSSE
    @@ <<84,83,79,65>> :> <<"OTHER_TEXT_FRAMES", "_tsoa">>  \* TSOA
    @@ <<84,83,79,80>> :> <<"OTHER_TEXT_FRAMES", "_tsop">>  \* TSOP
    @@ <<84,83,79,84>> :> <<"OTHER_TEXT_FRAMES", "_tsot">>  \* TSOT
    @@ <<84,88,88,88>> :> <<"USER_DEFINED_INFORMATION_FRAME", "_txxx">>  \* TXXX
    @@ <<87,67,79,77>> :> <<"URL_LINK_FRAMES", "_wcom">>  \* WCOM
    @@ <<87,67,79,80>> :> <<"URL_LINK_FRAMES", "_wcop">>  \* WCOP
    @@ <<87,79,65,70>> :> <<"URL_LINK_FRAMES", "_woaf">>  \* WOAF
    @@ <<87,79,65,82>> :> <<"URL_LINK_FRAMES", "_woar">>  \* WOAR
    @@ <<87,79,65,83>> :> <<"URL_LINK_FRAMES", "_woas">>  \* WOAS
    @@ <<87,79,82,83>> :> <<"URL_LINK_FRAMES", "_wors">>  \* WORS
    @@ <<87,80,65,89>> :> <<"URL_LINK_FRAMES", "_wpay">>  \* WPAY
    @@ <<87,80,85,66>> :> <<"URL_LINK_FRAMES", "_wpub">>  \* WPUB
    @@ <<87,88,88,88>> :> <<"USER_DEFINED_URL_FRAME", "_wxxx">>  \* WXXX
    @@ <<77,67,68,73>> :> <<"MUSIC_CD_IDENTIFIER", "_mcdi">>  \* MCDI
    @@ <<69,84,67,79>> :> <<"EVENT_TIMING_CODES", "_etco">>  \* ETCO
    @@ <<77,76,76,84>> :> <<"MPEG_LOCATION_LOOKUP_TABLE", "_mllt">>  \* MLLT
    @@ <<83,89,84,67>> :> <<"SYNCHRONISED_TEMPO_CODES", "_sytc">>  \* SYTC
    @@ <<85,83,76,84>> :> <<"UNSYNCRHONISED_LYRICS_TEXT_TRANSCRIPTION", "_uslt">>  \* USLT
    @@ <<83,89,76,84>> :> <<"SYNCHRONIZED_LYRICS_TEXT_TRANSCRIPTION", "_sylt">>  \* SYLT
    @@ <<82,86,65,50>> :> <<"RELATIVE_VOLUME_ADJUSTMENT", "_rva2">>  \* RVA2
    @@ <<69,81,85,50>> :> <<"EQUALISATION", "_equ2">>  \* EQU2
    @@ <<82,86,82,66>> :> <<"REVERB", "_rvrb">>  \* RVRB
    @@ <<65,80,73,67>> :> <<"ATTACHED_PICTURE", "_apic">>  \* APIC
    @@ <<71,69,79,66>> :> <<"GENERAL_ENCAPSULATED_OBJECT", "_geob">>  \* GEOB
    @@ <<80,67,78,84>> :> <<"PLAY_COUNTER", "_pcnt">>  \* PCNT
    @@ <<80,79,80,77>> :> <<"POPULARIMETER", "_popm">>  \* POPM
    @@ <<82,66,85,70>> :> <<"RECOMMENDED_BUFFER_SIZE", "_rbuf">>  \* RBUF
    @@ <<65,69,78,67>> :> <<"AUDIO_ENCRYPTION", "_aenc">>  \* AENC
    @@ <<76,73,78,75>> :> <<"LINKED_INFORMATION", "_link">>  \* LINK
    @@ <<80,79,83,83>> :> <<"POSITION_SYNCHRONIZATION_FRAME", "_poss">>  \* POSS
    @@ <<85,83,69,82>> :> <<"TERMS_OF_USE_FRAME", "_user">>  \* USER
    @@ <<79,87,78,69>> :> <<"OWNERSHIP_FRAME", "_owne">>  \* OWNE
    @@ <<67,79,77,82>> :> <<"COMMERCIAL_FRAME", "_comr">>  \* COMR
    @@ <<69,78,67,82>> :> <<"ENCYRPTION_METHOD_REGISTRATION", "_encr">>  \* ENCR
    @@ <<71,82,73,68>> :> <<"GROUP_IDENTIFICATION_REGISTRATION", "_grid">>  \* GRID
    @@ <<80,82,73,86>> :> <<"PRIVATE_FRAME", "_priv">>  \* PRIV
    @@ <<83,73,71,78>> :> <<"SIGNATURE_FRAME", "_sign">>  \* SIGN
    @@ <<83,69,69,75>> :> <<"SEEK_FRAME", "_seek">>  \* SEEK
    @@ <<65,83,80,73>> :> <<"AUDIO_SEEK_POINT_INDEX", "_aspi">>  \* ASPI

\* the methods class Frames defines (what hasattr finds)
M_methods ==
    {"_encode", "_comm", "_tit1", "_tit2", "_tit3", "_talb", "_toal", "_trck",
     "_tpos", "_tsst", "_tsrc", "_tpe1", "_tpe2", "_tpe3", "_tpe4", "_tope",
     "_text", "_toly", "_tcom", "_tmcl", "_tipl", "_tenc", "_tbpm", "_tlen",
     "_tkey", "_tlan", "_tcon", "_tflt", "_tmed", "_tmoo", "_tcop", "_tpro",
     "_tpub", "_town", "_trsn", "_trso", "_tfon", "_tdly", "_tden", "_tdor",
     "_tdrc", "_tyer", "_tdrl", "_tdtg", "_tsse", "_tsoa", "_tsop", "_tsot",
     "_txxx", "_wcom", "_wcop", "_woaf", "_woar", "_woas", "_wors", "_wpay",
     "_wpub", "_wxxx", "_mcdi", "_etoc", "_mllt", "_sytc", "_uslt", "_sylt",
     "_apic"}

\* per method: the "ID" literal, the key of its self.MAP[...] and "Contains"
M_literals ==
       "_comm" :> [ID |-> <<67,79,77,77>>, key |-> <<67,79,77,77>>, Contains |-> "Comments"]
    @@ "_tit1" :> [ID |-> <<84,73,84,49>>, key |-> <<84,73,84,49>>, Contains |-> "Content Group Description"]
    @@ "_tit2" :> [ID |-> <<84,73,84,50>>, key |-> <<84,73,84,50>>, Contains |-> "Title/Songname/Content"]
    @@ "_tit3" :> [ID |-> <<84,73,84,51>>, key |-> <<84,73,84,51>>, Contains |-> "Subtitle/Description"]
    @@ "_talb" :> [ID |-> <<84,65,76,66>>, key |-> <<84,65,76,66>>, Contains |-> "Album/Movie/Show"]
    @@ "_toal" :> [ID |-> <<84,79,65,76>>, key |-> <<84,79,65,76>>, Contains |-> "Original Album/Movie/Show"]
    @@ "_trck" :> [ID |-> <<84,82,67,75>>, key |-> <<84,82,67,75>>, Contains |-> "Track Number/Position"]
    @@ "_tpos" :> [ID |-> <<84,80,79,83>>, key |-> <<84,80,79,83>>, Contains |-> "Part of a Set"]
    @@ "_tsst" :> [ID |-> <<84,83,83,84>>, key |-> <<84,83,83,84>>, Contains |-> "Set Subtitle"]
    @@ "_tsrc" :> [ID |-> <<84,83,82,67>>, key |-> <<84,83,82,67>>, Contains |-> "International Standard Recording Code [ISRC]"]
    @@ "_tpe1" :> [ID |-> <<84,80,69,49>>, key |-> <<84,80,69,49>>, Contains |-> "Artist/Performer/Soloist/Group"]
    @@ "_tpe2" :> [ID |-> <<84,80,69,50>>, key |-> <<84,80,69,50>>, Contains |-> "Band/Orchestra/Accompaniment"]
    @@ "_tpe3" :> [ID |-> <<84,80,69,51>>, key |-> <<84,80,69,51>>, Contains |-> "Conductor"]
    @@ "_tpe4" :> [ID |-> <<84,80,69,52>>, key |-> <<84,80,69,52>>, Contains |-> "Interpreted/Remixed/Modified by"]
    @@ "_tope" :> [ID |-> <<84,79,80,69>>, key |-> <<84,79,80,69>>, Contains |-> "Original Artist/Performer"]
    @@ "_text" :> [ID |-> <<84,69,88,84>>, key |-> <<84,69,88,84>>, Contains |-> "Lyricist"]
    @@ "_toly" :> [ID |-> <<84,79,76,89>>, key |-> <<84,79,76,89>>, Contains |-> "Original Lyricist"]
    @@ "_tcom" :> [ID |-> <<84,67,79,77>>, key |-> <<84,67,79,77>>, Contains |-> "Composer"]
    @@ "_tmcl" :> [ID |-> <<84,77,67,76>>, key |-> <<84,77,67,76>>, Contains |-> "Musician Credits"]
    @@ "_tipl" :> [ID |-> <<84,73,80,76>>, key |-> <<84,73,80,76>>, Contains |-> "Involved People List"]
    @@ "_tenc" :> [ID |-> <<84,69,78,67>>, key |-> <<84,69,78,67>>, Contains |-> "Encoded by"]
    @@ "_tbpm" :> [ID |-> <<84,66,80,77>>, key |-> <<84,66,80,77>>, Contains |-> "BPM"]
    @@ "_tlen" :> [ID |-> <<84,76,69,78>>, key |-> <<84,76,69,78>>, Contains |-> "Length of Audio File in Milliseconds"]
    @@ "_tkey" :> [ID |-> <<84,75,69,89>>, key |-> <<84,75,69,89>>, Contains |-> "Initial Key"]
    @@ "_tlan" :> [ID |-> <<84,76,65,78>>, key |-> <<84,76,65,78>>, Contains |-> "Language"]
    @@ "_tcon" :> [ID |-> <<84,67,79,78>>, key |-> <<84,67,79,78>>, Contains |-> "Content Type (Genre)"]
    @@ "_tflt" :> [ID |-> <<84,70,76,84>>, key |-> <<84,70,76,84>>, Contains |-> "File Type"]
    @@ "_tmed" :> [ID |-> <<84,77,69,68>>, key |-> <<84,77,69,68>>, Contains |-> "Media Type"]
    @@ "_tmoo" :> [ID |-> <<84,77,79,79>>, key |-> <<84,77,79,79>>, Contains |-> "Mood"]
    @@ "_tcop" :> [ID |-> <<84,67,79,80>>, key |-> <<84,67,79,80>>, Contains |-> "Copyright Message"]
    @@ "_tpro" :> [ID |-> <<84,80,82,79>>, key |-> <<84,80,82,79>>, Contains |-> "Produced Notice"]
    @@ "_tpub" :> [ID |-> <<84,80,85,66>>, key |-> <<84,80,85,66>>, Contains |-> "Publisher"]
    @@ "_town" :> [ID |-> <<84,79,87,78>>, key |-> <<84,79,87,78>>, Contains |-> "File owner/Licensee"]
    @@ "_trsn" :> [ID |-> <<84,82,83,78>>, key |-> <<84,82,83,78>>, Contains |-> "Internet Radio Station Name"]
    @@ "_trso" :> [ID |-> <<84,82,83,79>>, key |-> <<84,82,83,79>>, Contains |-> "Internet Radio Station Owner"]
    @@ "_tfon" :> [ID |-> <<84,70,79,78>>, key |-> <<84,70,79,78>>, Contains |-> "Original Filename"]
    @@ "_tdly" :> [ID |-> <<84,68,76,89>>, key |-> <<84,68,76,89>>, Contains |-> "Playlist Delay in Milliseconds"]
    @@ "_tden" :> [ID |-> <<84,68,69,78>>, key |-> <<84,68,69,78>>, Contains |-> "Encoding Time"]
    @@ "_tdor" :> [ID |-> <<84,68,79,82>>, key |-> <<84,68,79,82>>, Contains |-> "Original Release Time"]
    @@ "_tdrc" :> [ID |-> <<84,68,82,67>>, key |-> <<84,68,82,67>>, Contains |-> "Recording Time"]
    @@ "_tyer" :> [ID |-> <<84,89,69,82>>, key |-> <<84,89,69,82>>, Contains |-> "Recording Time"]
    @@ "_tdrl" :> [ID |-> <<84,68,82,76>>, key |-> <<84,68,82,76>>, Contains |-> "Release Time"]
    @@ "_tdtg" :> [ID |-> <<84,68,84,71>>, key |-> <<84,68,84,71>>, Contains |-> "Tagging Time"]
    @@ "_tsse" :> [ID |-> <<84,83,83,69>>, key |-> <<84,83,83,69>>, Contains |-> "Software/Hardware & Settings Used for Encoding"]
    @@ "_tsoa" :> [ID |-> <<84,83,79,65>>, key |-> <<84,83,79,65>>, Contains |-> "Album Sort Order"]
    @@ "_tsop" :> [ID |-> <<84,83,79,80>>, key |-> <<84,83,79,80>>, Contains |-> "Performer Sort Order"]
    @@ "_tsot" :> [ID |-> <<84,83,79,84>>, key |-> <<84,83,79,84>>, Contains |-> "Title Sort Order"]
    @@ "_txxx" :> [ID |-> <<84,88,88,88>>, key |-> <<84,88,88,84>>, Contains |-> "Audio File Text Information"]
    @@ "_wcom" :> [ID |-> <<87,67,79,77>>, key |-> <<87,67,79,77>>, Contains |-> "Commerical Information"]
    @@ "_wcop" :> [ID |-> <<87,67,79,80>>, key |-> <<87,67,79,80>>, Contains |-> "Copyright/Legal Information"]
    @@ "_woaf" :> [ID |-> <<87,79,65,70>>, key |-> <<87,79,65,70>>, Contains |-> "Official Audio File Webpage"]
    @@ "_woar" :> [ID |-> <<87,79,65,82>>, key |-> <<87,79,65,82>>, Contains |-> "Official Artist/Performer Webpage"]
    @@ "_woas" :> [ID |-> <<87,79,65,83>>, key |-> <<87,79,65,83>>, Contains |-> "Official Audio Source Webpage"]
    @@ "_wors" :> [ID |-> <<87,79,82,83>>, key |-> <<87,79,82,83>>, Contains |-> "Official Internet Radio Station Homepage"]
    @@ "_wpay" :> [ID |-> <<87,80,65,89>>, key |-> <<87,80,65,89>>, Contains |-> "Payment"]
    @@ "_wpub" :> [ID |-> <<87,80,85,66>>, key |-> <<87,80,85,66>>, Contains |-> "Publishers Official Webpage"]
    @@ "_wxxx" :> [ID |-> <<87,88,88,88>>, key |-> <<87,88,88,88>>, Contains |-> "Audio File URL Links"]
    @@ "_mcdi" :> [ID |-> <<77,67,68,73>>, key |-> <<77,67,68,73>>, Contains |-> "CD Identifier"]
    @@ "_uslt" :> [ID |-> <<85,83,76,84>>, key |-> <<85,83,76,84>>, Contains |-> "Unsynchronised lyrics/text transcription"]
    @@ "_apic" :> [ID |-> <<65,80,73,67>>, key |-> <<65,80,73,67>>, Contains |-> "Attached Picture"]

\* the methods whose body is the plain "Information" decode
M_plain ==
    {"_tit1", "_tit2", "_tit3", "_talb", "_toal", "_trck", "_tpos", "_tsst",
     "_tsrc", "_tpe1", "_tpe2", "_tpe3", "_tpe4", "_tope", "_text", "_toly",
     "_tcom", "_tmcl", "_tipl", "_tenc", "_tbpm", "_tlen", "_tkey", "_tlan",
     "_tmoo", "_tcop", "_tpro", "_tpub", "_town", "_trsn", "_trso", "_tfon",
     "_tdly", "_tden", "_tdor", "_tdrc", "_tyer", "_tdrl", "_tdtg", "_tsse",
     "_tsoa", "_tsop", "_tsot", "_wcom", "_wcop", "_woaf", "_woar", "_woas",
     "_wors", "_wpay", "_wpub"}

RetDict(d, w) ==
    [kind |-> "dict", shape |-> "dict", id |-> << >>, v |-> d, err |-> "", write |-> w]

\* Frames.__init__ of metadata.py (body is not empty: body[0] is read)
M_Frames_init(body, id, size, save_image) ==
    [body |-> SliceFrom(body, 1), encoding |-> body[1],
     id |-> id, size |-> size, save_image |-> save_image]

\* the dict a decoder method m returns, with its text fields f and other fields n;
\* self.MAP[key] raises KeyError for a key the table lacks
M_dict(self, m, f, n, w) ==
    LET lit == M_literals[m] IN
    IF lit.key \notin DOMAIN M_MAP THEN [RetRaise("KeyError") EXCEPT !.write = w]
    ELSE RetDict([ID |-> lit.ID, f |-> f, n |-> n, Contains |-> lit.Contains,
                  PartOf |-> M_MAP[lit.key][1], FrameSize |-> self.size], w)

\* _tit1 ... _wpub: "Information" is the body decoded, NULs removed
M_information(self, m) ==
    M_dict(self, m,
           [Information |-> replace_nul(decode(self.body, _encode(self), TRUE).s)],
           << >>, << >>)

IsDigit(c) == c \in 48..57

\* int(s) for ASCII text: surrounding whitespace, a sign, digits with single
\* underscores between them; [ok, n]
RECURSIVE DigitsValue(_, _)
DigitsValue(s, acc) ==
    IF s = << >> THEN [ok |-> TRUE, n |-> acc]
    ELSE IF IsDigit(s[1]) THEN DigitsValue(Tail(s), 10 * acc + (s[1] - 48))
    ELSE IF s[1] = 95 /\ Len(s) >= 2 /\ IsDigit(s[2]) THEN DigitsValue(Tail(s), acc)
    ELSE [ok |-> FALSE, n |-> 0]

int_str(s) ==
    LET t == strip(s)
        neg == t # << >> /\ t[1] = 45
        u == IF t # << >> /\ t[1] \in {43, 45} THEN Tail(t) ELSE t
    IN  IF u = << >> \/ ~IsDigit(u[1]) THEN [ok |-> FALSE, n |-> 0]
        ELSE LET r == DigitsValue(u, 0) IN
             IF r.ok /\ neg THEN [ok |-> TRUE, n |-> 0 - r.n] ELSE r

\* Frames._tcon: the genre table entry when the text is an index of it
M_tcon(self) ==
    LET text == decode(self.body, _encode(self), TRUE).s
        i == int_str(text)
        genre == IF i.ok /\ GENRES_has(i.n) THEN GENRES(i.n) ELSE text
    IN  M_dict(self, "_tcon", [Information |-> replace_nul(genre)], << >>, << >>)

\* Frames._tflt
M_tflt(self) ==
    LET file_type == strip(decode(self.body, _encode(self), TRUE).s) IN
    M_dict(self, "_tflt",
           [FileType |-> file_type, Description |-> TFLT_types(file_type)],
           << >>, << >>)

\* Frames._tmed
M_tmed(self) ==
    LET media_type == strip(decode(self.body, _encode(self), TRUE).s) IN
    M_dict(self, "_tmed", [Information |-> replace_nul(media_type)], << >>, << >>)

\* Frames._txxx
M_txxx(self) ==
    LET encoding == _encode(self)
        p == partition_nul(self.body)
    IN  M_dict(self, "_txxx",
               [Description |-> strip(decode(p[1], encoding, TRUE).s),
                Value |-> strip(decode(p[3], encoding, TRUE).s)],
               << >>, << >>)

\* Frames._wxxx
M_wxxx(self) ==
    LET encoding == _encode(self)
        p == partition_nul(self.body)
    IN  M_dict(self, "_wxxx",
               [Description |-> strip(decode(p[1], encoding, TRUE).s),
                URL |-> strip(decode(p[3], "ISO-8859-1", TRUE).s)],
               << >>, << >>)

\* Frames._mcdi
M_mcdi(self) ==
    M_dict(self, "_mcdi",
           [CDTOC |-> replace_nul(decode(self.body, _encode(self), TRUE).s)],
           << >>, << >>)

\* Frames._comm and Frames._uslt of metadata.py
M_comm(self, m) ==
    LET encoding == _encode(self)
        language == replace_nul(decode(Slice(self.body, 0, 3), "ISO-8859-1", FALSE).s)
        p == partition_nul(SliceFrom(self.body, 3))
        d == decode(p[1], encoding, FALSE)
        description == IF d.ok THEN d.s ELSE None
        t == decode(strip_nul(p[3]), encoding, TRUE)
        ftext == IF t.ok THEN printable(t.s) ELSE None
    IN  M_dict(self, m,
               IF m = "_uslt"
               THEN [Language |-> language, Description |-> description,
                     Lyrics |-> ftext]
               ELSE [Language |-> language, Description |-> description,
                     Text |-> ftext],
               << >>, << >>)

\* Frames._sytc of metadata.py: reads self.body[0] and self.body[1]
M_sytc(self) ==
    IF Len(self.body) < 2 THEN RetRaise("IndexError") ELSE RetStr(NotImplemented)

\* Frames._sylt of metadata.py: reads self.body[3] and self.body[4]
M_sylt(self) ==
    IF Len(self.body) < 5 THEN RetRaise("IndexError") ELSE RetStr(NotImplemented)

\* Frames._apic of metadata.py
M_apic(self) ==
    LET encoding == _encode(self)
        p == partition_nul(self.body)
        mime_type == decode(p[1], "utf-8", FALSE)
        frame_body == p[3]
    IN  IF ~mime_type.ok THEN RetRaise("UnicodeDecodeError")
        ELSE IF frame_body = << >> THEN RetRaise("IndexError")
        ELSE
            LET picture_type == frame_body[1]
                q == partition_nul(SliceFrom(frame_body, 1))
                description == decode(q[1], encoding, FALSE)
                picture_data == q[3]
                w == apic_write(self.save_image, picture_type, description.s,
                                picture_data)
            IN  IF ~description.ok THEN RetRaise("UnicodeDecodeError")
                ELSE IF ~PICTURE_TYPE_has(picture_type)
                THEN [RetRaise("LookupError") EXCEPT !.write = w]
                ELSE M_dict(self, "_apic",
                            [MIMEType |-> mime_type.s,
                             PictureType |-> PICTURE_TYPE(picture_type),
                             Description |-> description.s],
                            [PictureDataLength |-> Len(picture_data),
                             ImageSaved |-> self.save_image],
                            w)

\* getattr(self, m)() for a method name m of M_methods
M_call(self, m) ==
    IF m \in M_plain THEN M_information(self, m)
    ELSE IF m = "_comm" \/ m = "_uslt" THEN M_comm(self, m)
    ELSE IF m = "_tcon" THEN M_tcon(self)
    ELSE IF m = "_tflt" THEN M_tflt(self)
    ELSE IF m = "_tmed" THEN M_tmed(self)
    ELSE IF m = "_txxx" THEN M_txxx(self)
    ELSE IF m = "_wxxx" THEN M_wxxx(self)
    ELSE IF m = "_mcdi" THEN M_mcdi(self)
    ELSE IF m = "_sytc" THEN M_sytc(self)
    ELSE IF m = "_sylt" THEN M_sylt(self)
    ELSE IF m = "_apic" THEN M_apic(self)
    ELSE RetStr(NotImplemented)

\* Frames.process_frame of metadata.py
M_process_frame(self) ==
    IF self.id \in DOMAIN M_MAP /\ M_MAP[self.id][2] \in M_methods
    THEN M_call(self, M_MAP[self.id][2])
    ELSE RetNone

(***************************************************************************)
(* The byte stream self.stream: an open file and a position                *)
(***************************************************************************)
\* stream.read(n) at position p: the bytes and the new position
read(f, p, n) ==
    [data |-> Slice(f, p, p + n),
     pos |-> IF p >= Len(f) THEN p ELSE Min(p + n, Len(f))]

\* the length of the legacy tag: seek(-128, 2), read(128)
TagV1Len == 128

\* the length of the chunked tag header and of a record header
HeaderLen == 10

TAGV1 == <<84, 65, 71>>

TAGV2 == <<73, 68, 51>>

ExtendedHeader == <<69,120,116,101,110,100,101,100,32,72,101,97,100,101,114>>

(***************************************************************************)
(* Values a Tag method gives back                                          *)
(*   kind "dict":  the mapping, as metadata (header fields) and frames     *)
(*                 (the entries under 4-character identifiers)             *)
(*   kind "str":   the string s                                            *)
(*   kind "None":  None                                                    *)
(*   kind "exc":   an exception object, returned as a value                *)
(*   kind "raise": the exception err, raised                               *)
(***************************************************************************)
VDict(md, fr) ==
    [kind |-> "dict", metadata |-> md, frames |-> fr, s |-> << >>, err |-> ""]

VStr(s) ==
    [kind |-> "str", metadata |-> << >>, frames |-> << >>, s |-> s, err |-> ""]

VNone ==
    [kind |-> "None", metadata |-> << >>, frames |-> << >>, s |-> << >>, err |-> ""]

VExc(e) ==
    [kind |-> "exc", metadata |-> << >>, frames |-> << >>, s |-> << >>, err |-> e]

VRaise(e) ==
    [kind |-> "raise", metadata |-> << >>, frames |-> << >>, s |-> << >>, err |-> e]

(***************************************************************************)
(* frames.py: class Tag                                                    *)
(***************************************************************************)
\* Tag.get_stream with the seek of line 66 and 69 at offset -k from the end;
\* ret is what the method returns: "both", "get_v1", "get_v2" or "None"
get_stream_at(f, k) ==
    IF Len(f) < k
    THEN [err |-> "OSError", ret |-> "", headerv1 |-> None, headerv2 |-> None, pos |-> 0]
    ELSE
        LET tag1 == read(f, Len(f) - k, 3)
            headerv1 == IF tag1.data = TAGV1 THEN read(f, Len(f) - k, TagV1Len).data
                        ELSE None
            tag2 == read(f, 0, 3)
            r2 == IF tag2.data = TAGV2 THEN read(f, tag2.pos - 3, HeaderLen)
                  ELSE [data |-> None, pos |-> tag2.pos]
            headerv2 == r2.data
            has1 == headerv1 # None /\ headerv1 # << >>
            has2 == headerv2 # None /\ headerv2 # << >>
        IN  [err |-> "",
             ret |-> IF has1 /\ has2 THEN "both"
                     ELSE IF has1 THEN "get_v1"
                     ELSE IF has2 THEN "get_v2"
                     ELSE "None",
             headerv1 |-> headerv1, headerv2 |-> headerv2, pos |-> r2.pos]

get_stream_shifted(f) == get_stream_at(f, TagV1Len - 3)

\* a get_stream without the seek(-3, 1) before the 10-byte read
get_stream_no_rewind(f) ==
    IF Len(f) < TagV1Len
    THEN [err |-> "OSError", ret |-> "", headerv1 |-> None, headerv2 |-> None, pos |-> 0]
    ELSE
        LET tag1 == read(f, Len(f) - TagV1Len, 3)
            headerv1 == IF tag1.data = TAGV1
                        THEN read(f, Len(f) - TagV1Len, TagV1Len).data
                        ELSE None
            tag2 == read(f, 0, 3)
            r2 == IF tag2.data = TAGV2 THEN read(f, tag2.pos, HeaderLen)
                  ELSE [data |-> None, pos |-> tag2.pos]
            headerv2 == r2.data
            has1 == headerv1 # None /\ headerv1 # << >>
            has2 == headerv2 # None /\ headerv2 # << >>
        IN  [err |-> "",
             ret |-> IF has1 /\ has2 THEN "both"
                     ELSE IF has1 THEN "get_v1"
                     ELSE IF has2 THEN "get_v2"
                     ELSE "None",
             headerv1 |-> headerv1, headerv2 |-> headerv2, pos |-> r2.pos]

\* Tag.get_stream
get_stream(f) == get_stream_at(f, TagV1Len)

\* a cleaning pass that strips before it removes the NULs
clean_field_strip_first(label, value) ==
    IF ~decode_utf8(value, FALSE).ok
    THEN [ok |-> FALSE, v |-> << >>, err |-> "UnicodeDecodeError"]
    ELSE IF replace_nul(strip(decode_utf8(value, FALSE).s)) = << >>
    THEN [ok |-> TRUE, v |-> None, err |-> ""]
    ELSE [ok |-> TRUE, v |-> replace_nul(strip(decode_utf8(value, FALSE).s)), err |-> ""]

\* one pass of the loop of Tag._clean: [ok, v] or the exception raised
clean_field(label, value) ==
    LET d == decode_utf8(value, FALSE) IN
    IF ~d.ok THEN [ok |-> FALSE, v |-> << >>, err |-> "UnicodeDecodeError"]
    ELSE IF label = "Genre" THEN
        IF Len(d.s) # 1 THEN [ok |-> FALSE, v |-> << >>, err |-> "TypeError"]
        ELSE IF ~GENRES_has(d.s[1]) THEN [ok |-> FALSE, v |-> << >>, err |-> "LookupError"]
        ELSE [ok |-> TRUE, v |-> GENRES(d.s[1]), err |-> ""]
    ELSE
        LET t == strip(replace_nul(d.s)) IN
        [ok |-> TRUE, v |-> IF t = << >> THEN None ELSE t, err |-> ""]

V1Labels == <<"Identifier", "Title", "Artist", "Album", "Year", "Comments", "Genre">>

\* Tag._clean: the fields in dict order, the first exception ends it
_clean(md) ==
    LET c == [i \in 1..Len(V1Labels) |-> clean_field(V1Labels[i], md[V1Labels[i]])]
        bad == {i \in 1..Len(V1Labels) : ~c[i].ok}
    IN  IF bad # {}
        THEN VRaise(c[CHOOSE i \in bad : \A j \in bad : i <= j].err)
        ELSE VDict([l \in {V1Labels[i] : i \in 1..Len(V1Labels)} |->
                       c[CHOOSE i \in 1..Len(V1Labels) : V1Labels[i] = l].v],
                   << >>)

\* the slices get_v1 and content_v1 take of the 128-byte record
v1_fields(stream) ==
    [Identifier |-> Slice(stream, 0, 3), Title |-> Slice(stream, 3, 33),
     Artist |-> Slice(stream, 33, 63), Album |-> Slice(stream, 63, 93),
     Year |-> Slice(stream, 93, 97), Comments |-> Slice(stream, 97, 126),
     Genre |-> Slice(stream, 127, 128)]

\* Tag.get_v1
get_v1(stream) == _clean(v1_fields(stream))

\* the header fields get_v2 and content_v2 set before the version test
v2_fields_version(stream) ==
    LET Version == str_int(stream[4]) \o <<46>> \o str_int(stream[5]) IN
    ("Identifier" :> Slice(stream, 0, 3)) @@ ("Version" :> Version)
    @@ ("Full Version" :> (<<73, 68, 51, 118, 50>> \o <<46>> \o Version))

\* the header fields get_v2 and content_v2 set from the flag byte
v2_fields_flags(md, flags) ==
    md @@ ("Flags" :> flags) @@ ("Flags Hex" :> fmt_02x(flags))
       @@ ("Flags Bits" :> fmt_08b(flags))
       @@ ("Unsynchronisation" :> (Shr(BitAnd(flags, 128), 7) # 0))
       @@ ("Extended Header" :> (Shr(BitAnd(flags, 64), 6) # 0))
       @@ ("Experimental Indicator" :> (Shr(BitAnd(flags, 32), 5) # 0))
       @@ ("Footer Present" :> (Shr(BitAnd(flags, 16), 4) # 0))

\* the loop over sequences = (8, 4, 2, 1) with shift = 3, 2, 1, 0
other_flags_set(flags) ==
    \E shift \in 0..3 : Shr(BitAnd(flags, Pow2(shift)), shift) = 1

\* Tag.get_v2 up to the while loop: either it returns (ret = "return", value)
\* or the walk starts (ret = "walk") on tag_body with the fields metadata
get_v2_header(stream, f, p) ==
    LET nowalk(v) == [ret |-> "return", value |-> v, metadata |-> << >>,
                      tag_body |-> << >>, pos |-> p]
    IN
    IF Len(stream) < 5 THEN nowalk(VRaise("IndexError"))
    ELSE
        LET md0 == v2_fields_version(stream) IN
        IF stream[4] >= 5 THEN nowalk(VDict(md0, << >>))
        ELSE IF Len(stream) < 6 THEN nowalk(VRaise("IndexError"))
        ELSE
            LET flags == stream[6]
                md1 == v2_fields_flags(md0, flags)
            IN
            IF Shr(BitAnd(flags, 64), 6) = 1 THEN nowalk(VStr(ExtendedHeader))
            ELSE IF other_flags_set(flags)
            THEN nowalk(VDict(md1 @@ ("Other Flags" :> "NOT CLEARED"), << >>))
            ELSE IF Len(stream) < HeaderLen THEN nowalk(VRaise("IndexError"))
            ELSE
                LET r == read(f, p, synchsafe_get_v2(stream))
                    unsynchronisation == Shr(BitAnd(flags, 128), 7)
                IN  [ret |-> "walk", value |-> VNone,
                     metadata |-> md1 @@ ("Other Flags" :> "CLEARED"),
                     tag_body |-> IF unsynchronisation # 0 THEN rm_unsync(r.data)
                                  ELSE r.data,
                     pos |-> r.pos]

(***************************************************************************)
(* metadata.py: class Tag                                                  *)
(***************************************************************************)
\* a _v1 whose first seek is missing: the 3 bytes are read where the stream is
_v1_no_seek(f) ==
    IF Len(f) < TagV1Len THEN [err |-> "OSError", data |-> None, pos |-> 0]
    ELSE IF read(f, pos, 3).data = TAGV1
    THEN [err |-> "", data |-> read(f, Len(f) - TagV1Len, TagV1Len).data, pos |-> Len(f)]
    ELSE [err |-> "", data |-> None, pos |-> read(f, pos, 3).pos]

\* Tag._v1: the 128-byte record or None, and the position it leaves
_v1(f) ==
    IF Len(f) < TagV1Len THEN [err |-> "OSError", data |-> None, pos |-> 0]
    ELSE
        LET tag == read(f, Len(f) - TagV1Len, 3) IN
        IF tag.data = TAGV1
        THEN [err |-> "", data |-> read(f, Len(f) - TagV1Len, TagV1Len).data,
              pos |-> Len(f)]
        ELSE [err |-> "", data |-> None, pos |-> tag.pos]

\* Tag._clean_v1
_clean_v1(md) == _clean(md)

\* Tag.content_v1, given what _v1 gave
content_v1(h) ==
    IF h.err # "" THEN VExc(h.err)
    ELSE IF h.data = None THEN VExc("Exception")
    ELSE _clean_v1(v1_fields(h.data))

\* Tag._v2 at position p: the header or None, and the position it leaves
_v2(f, p) ==
    LET tag == read(f, p, 3) IN
    IF tag.data = TAGV2 THEN read(f, tag.pos - 3, HeaderLen)
    ELSE [data |-> None, pos |-> tag.pos]

\* Tag._clean_v2 is called and defined nowhere: the call raises AttributeError
_clean_v2(md) == VRaise("AttributeError")

\* Tag.content_v2 up to the while loop, given what _v2 gave
content_v2_header(stream, f, p) ==
    LET nowalk(v) == [ret |-> "return", value |-> v, metadata |-> << >>,
                      tag_body |-> << >>, pos |-> p]
    IN
    IF stream = None THEN nowalk(VExc("Exception"))
    ELSE IF Len(stream) < 5 THEN nowalk(VRaise("IndexError"))
    ELSE
        LET md0 == v2_fields_version(stream) IN
        IF stream[4] >= 5 THEN nowalk(_clean_v2(md0))
        ELSE IF Len(stream) < 6 THEN nowalk(VRaise("IndexError"))
        ELSE
            LET flags == stream[6]
                md1 == v2_fields_flags(md0, flags)
            IN
            IF Shr(BitAnd(flags, 64), 6) = 1 THEN nowalk(VStr(ExtendedHeader))
            ELSE IF other_flags_set(flags)
            THEN nowalk(_clean_v2(md1 @@ ("Other Flags" :> "NOT CLEARED")))
            ELSE IF Len(stream) < HeaderLen THEN nowalk(VRaise("IndexError"))
            ELSE
                LET r == read(f, p, synchsafe_content_v2(stream))
                    unsynchronisation == Shr(BitAnd(flags, 128), 7)
                IN  [ret |-> "walk", value |-> VNone,
                     metadata |-> md1 @@ ("Other Flags" :> "CLEARED"),
                     tag_body |-> IF unsynchronisation # 0 THEN rm_unsync(r.data)
                                  ELSE r.data,
                     pos |-> r.pos]

(***************************************************************************)
(* The while loop of Tag.get_v2 (frames.py) and Tag.content_v2             *)
(* (metadata.py), one iteration at a time                                  *)
(***************************************************************************)
\* a test that finds no header truncated
never_truncated(frame_header) == FALSE

\* a skip that also consumes two body bytes
walk_skip_past(i) == i + HeaderLen + 2

\* a skip that stops two bytes short of the next record
walk_skip_short(i) == i + HeaderLen - 2

\* len(frame_header) < 10: the loop breaks
walk_truncated(frame_header) == Len(frame_header) < HeaderLen

\* idx += 10 for a record of declared size 0
walk_skip_zero(i) == i + HeaderLen

\* idx += 10 + frame_size
walk_advance(i, frame_size) == i + HeaderLen + frame_size

\* processed_frame[1] of get_v2: the second item of a tuple, or the second
\* character of a string
second_item(processed_frame) ==
    IF processed_frame.kind = "str"
    THEN [shape |-> "text", v |-> <<processed_frame.v[2]>>]
    ELSE [shape |-> processed_frame.shape, v |-> processed_frame.v]

\* what content_v2 stores: the processed frame itself
whole_item(processed_frame) ==
    [shape |-> processed_frame.shape, v |-> processed_frame.v]

\* a merge that keeps the earlier entry of the same key
merge_first(fr, frame_id, entry) ==
    IF frame_id \in DOMAIN fr THEN fr ELSE Put(fr, frame_id, entry)

\* metadata[frame_id] = ...: the entry replaces any earlier one of the same key
merge(fr, frame_id, entry) == Put(fr, frame_id, entry)

\* the loop runs another iteration: idx < len(tag_body) and no break
walk_continues(body, i) ==
    i < Len(body) /\ ~walk_truncated(Slice(body, i, i + HeaderLen))

\* what one iteration of the loop did.
\* act: "raise" (err), "zero", "empty", "merged" or "none" (nothing stored);
\* write: the file the iteration wrote, as (name, data), or << >>
walk_out(act, id, size, j, g, e) ==
    [act |-> act, id |-> id, size |-> size, idx |-> j, frames |-> g, err |-> e,
     write |-> << >>]

\* ... when the record's decoder ran: what it wrote is part of the iteration
walk_wrote(out, processed_frame) == [out EXCEPT !.write = processed_frame.write]

\* the end of an iteration: the processed frame is stored under its identifier,
\* unless it is None, and idx moves past the record
walk_stored(c, i, fr, frame_id, frame_size, processed_frame) ==
    IF processed_frame.kind = "raise"
    THEN walk_out("raise", frame_id, frame_size, i, fr, processed_frame.err)
    ELSE IF processed_frame.kind = "None"
    THEN walk_out("none", frame_id, frame_size, walk_advance(i, frame_size), fr, "")
    ELSE walk_out("merged", frame_id, frame_size, walk_advance(i, frame_size),
                  merge(fr, frame_id,
                        IF c = "frames" THEN second_item(processed_frame)
                        ELSE whole_item(processed_frame)),
                  "")

walk_store(c, i, fr, frame_id, frame_size, processed_frame) ==
    walk_wrote(walk_stored(c, i, fr, frame_id, frame_size, processed_frame),
               processed_frame)

\* a walk that builds its decoders with save_image on
walk_record_saving(c, body, i, fr, frame_id, frame_size, frame_body) ==
    IF frame_size = 0 THEN walk_out("zero", frame_id, 0, walk_skip_zero(i), fr, "")
    ELSE IF frame_body = << >>
    THEN walk_out("empty", frame_id, frame_size, walk_advance(i, frame_size), fr, "")
    ELSE walk_store(c, i, fr, frame_id, frame_size,
             IF c = "frames"
             THEN process_frame(Frames_init(frame_body, frame_id, frame_size, TRUE))
             ELSE M_process_frame(M_Frames_init(frame_body, frame_id, frame_size, TRUE)))

\* the record at idx = i, once its identifier has decoded
walk_record(c, body, i, fr, frame_id, frame_size, frame_body) ==
    IF frame_size = 0 THEN walk_out("zero", frame_id, 0, walk_skip_zero(i), fr, "")
    ELSE IF frame_body = << >>
    THEN walk_out("empty", frame_id, frame_size, walk_advance(i, frame_size), fr, "")
    ELSE walk_store(c, i, fr, frame_id, frame_size,
             IF c = "frames"
             THEN process_frame(Frames_init(frame_body, frame_id, frame_size, FALSE))
             ELSE M_process_frame(M_Frames_init(frame_body, frame_id, frame_size, FALSE)))

\* the bytes of the record that starts i + HeaderLen into the body
walk_body(body, i, frame_size) ==
    Slice(body, i + HeaderLen, i + HeaderLen + frame_size)

\* the record whose 10-byte header is frame_header
walk_header(c, body, i, fr, frame_header, frame_id) ==
    IF ~frame_id.ok THEN walk_out("raise", << >>, 0, i, fr, "UnicodeDecodeError")
    ELSE walk_record(c, body, i, fr, frame_id.s,
                     from_bytes_big(Slice(frame_header, 4, 8)),
                     walk_body(body, i, from_bytes_big(Slice(frame_header, 4, 8))))

\* one iteration of the loop at idx = i with the entries fr; c is the class
walk_iteration(c, body, i, fr) ==
    walk_header(c, body, i, fr, Slice(body, i, i + HeaderLen),
                decode_ascii(Slice(body, i, i + 4)))

(***************************************************************************)
(* Audio files the readers are run on                                      *)
(***************************************************************************)
\* records per tag body
MaxRecs == 2

\* bytes cut off the end of a tag body
MaxDrop == 3

\* method calls on one opened Tag
MaxCalls == 2

Pad(n) == [i \in 1..n |-> 0]

PadTo(s, n) == s \o Pad(n - Len(s))

\* a size as four big-endian bytes
be32(n) == <<(n \div 16777216) % 256, (n \div 65536) % 256, (n \div 256) % 256, n % 256>>

\* a size as four synchsafe bytes
synchsafe(n) == <<(n \div 2097152) % 128, (n \div 16384) % 128, (n \div 128) % 128, n % 128>>

\* a sub-record: identifier, declared size, two flag bytes, payload
Record(id, payload) == id \o be32(Len(payload)) \o <<0, 0>> \o payload

ID_ZZZZ == <<90, 90, 90, 90>>

\* the sub-records tag bodies are built from
RecTypes ==
    { Record(ID_TIT2, <<0, 65>>),          \* text "A"
      Record(ID_TIT2, <<0, 66>>),          \* text "B"
      Record(ID_TIT2, << >>),              \* declared size 0
      Record(ID_ZZZZ, <<0, 65>>),          \* an identifier no table knows
      Record(ID_MLLT, <<0>>),              \* recognized, not decoded
      Record(ID_SYTC, <<0>>),              \* too short for its decoder
      Record(<<255, 0, 90, 90>>, <<0, 65>>),   \* identifier that is not ASCII
      Record(ID_TXXX, <<0, 65, 0, 66>>) }  \* description "A", value "B"

\* tag bodies of at most n whole records
RECURSIVE BodiesUpTo(_)
BodiesUpTo(n) ==
    IF n = 0 THEN {<< >>}
    ELSE LET prev == BodiesUpTo(n - 1) IN
         prev \cup {b \o r : b \in prev, r \in RecTypes}

\* ... and with up to MaxDrop bytes cut off the end
Bodies ==
    {SubSeq(b, 1, Len(b) - k) : b \in BodiesUpTo(MaxRecs), k \in 0..MaxDrop}

\* the 10-byte header of a chunked tag
Header(major, minor, flags, size) == TAGV2 \o <<major, minor, flags>> \o synchsafe(size)

\* a 128-byte trailer: 3 bytes, title, artist, album, year, comment, track, genre
Trailer(id3, title, genre) ==
    id3 \o PadTo(title, 30) \o PadTo(<<66>>, 30) \o Pad(30) \o <<50, 48, 49, 49>>
        \o Pad(29) \o <<0>> \o <<genre>>

NoTrailer == Pad(TagV1Len)

GoodTrailer == Trailer(TAGV1, <<65>>, 12)

Trailers ==
    {Trailer(TAGV1, t, g) : t \in {<<65>>, <<32, 65, 32>>, << >>, <<233>>, <<195, 169>>,
                                   <<65, 0, 32>>, <<32, 0, 9>>},
                            g \in {0, 12, 127, 128, 147, 148, 255}}
    \cup {Trailer(i, <<65>>, 12) :
            i \in {<<84, 65, 88>>, <<88, 65, 71>>, <<116, 97, 103>>, TAGV2, <<0, 84, 65>>}}
    \cup {NoTrailer}

\* chunked tags with every flag byte, and with versions around 5
HeaderFiles ==
    {Header(4, 0, fl, 12) \o Record(ID_TIT2, <<0, 65>>) \o t :
        fl \in 0..255, t \in {NoTrailer}}
    \cup {Header(major, 0, fl, 12) \o Record(ID_TIT2, <<0, 65>>) \o t :
            major \in {0, 2, 3, 5, 6, 255}, fl \in {0, 1, 64, 65, 128},
            t \in {NoTrailer, GoodTrailer}}

\* chunked tags whose size bytes have the high bit set
SizeFiles ==
    {TAGV2 \o <<4, 0, 0>> \o sz \o Record(ID_TIT2, <<0, 65>>) \o NoTrailer :
        sz \in {<<0, 0, 0, 140>>, <<128, 0, 0, 12>>, <<0, 128, 128, 12>>,
                <<255, 255, 255, 255>>}}

\* chunked tags over the tag bodies; unsynchronised where that changes the body
WalkFiles ==
    {Header(3, 0, 0, Len(b)) \o b \o NoTrailer : b \in Bodies}
    \cup {Header(3, 0, 128, Len(b)) \o b \o NoTrailer :
            b \in {c \in Bodies : \E i \in 1..Len(c) : c[i] = 255}}

\* legacy tags, present and absent, behind different starts of the file
LegacyFiles ==
    {p \o t : p \in {<< >>, <<1, 2, 3>>, TAGV1,
                     Header(3, 0, 0, 12) \o Record(ID_TIT2, <<0, 65>>)},
              t \in Trailers}

\* files shorter than a legacy tag
ShortFiles ==
    {<< >>, TAGV1, TAGV2, TAGV2 \o <<3>>, TAGV2 \o <<3, 0>>, TAGV2 \o <<3, 0, 0>>,
     Header(3, 0, 0, 0), Header(5, 0, 0, 0), Header(3, 0, 1, 0),
     Header(3, 0, 0, 12) \o Record(ID_TIT2, <<0, 65>>)}

\* an APIC payload: encoding 0, MIME type "i", picture type, description "d",
\* two bytes of picture data
Picture(picture_type) == <<0, 105, 0, picture_type, 100, 0, 1, 2>>

\* chunked tags that carry a picture
ImageFiles ==
    {Header(3, 0, 0, Len(b)) \o b \o NoTrailer :
        b \in {Record(ID_APIC, Picture(3)), Record(ID_APIC, Picture(2)),
               Record(ID_TIT2, <<0, 65>>) \o Record(ID_APIC, Picture(3)),
               Record(ID_APIC, Picture(3)) \o Record(ID_TIT2, <<0, 65>>)}}

Files ==
    HeaderFiles \cup SizeFiles \cup WalkFiles \cup LegacyFiles \cup ShortFiles
        \cup ImageFiles

(***************************************************************************)
(* A Tag object: with Tag(audio) as tag: tag.<method>() ...                *)
(***************************************************************************)
NoValue ==
    [kind |-> "absent", metadata |-> << >>, frames |-> << >>, s |-> << >>, err |-> ""]

\* what a call gave: ret is "raise" (err), "v1", "v2" or "both"
Returned(c, ret, v1, v2, e) == [call |-> c, ret |-> ret, v1 |-> v1, v2 |-> v2, err |-> e]

NoResult == Returned("", "", NoValue, NoValue, "")

\* no Frames instance made, no process_frame run
NoInstance == [id |-> << >>, body |-> << >>, size |-> 0, save_image |-> FALSE]

NoProcessed ==
    [kind |-> "absent", shape |-> "", id |-> << >>, v |-> << >>, err |-> "", write |-> << >>]

Init ==
    /\ file \in Files
    /\ cls \in {"frames", "metadata"}
    /\ handle = "none"
    /\ pos = 0
    /\ pc = "new"
    /\ call = ""
    /\ ncalls = 0
    /\ v1arg = None
    /\ v1res = NoValue
    /\ hdr2 = None
    /\ tag_body = << >>
    /\ idx = 0
    /\ metadata = << >>
    /\ frames = << >>
    /\ visited = << >>
    /\ last = ""
    /\ result = NoResult
    /\ sizeb = << >>
    /\ sizes = << >>
    /\ instance = NoInstance
    /\ processed = NoProcessed

\* Tag.__enter__
Enter ==
    /\ pc = "new"
    /\ handle' = "open"
    /\ pos' = 0
    /\ pc' = "idle"
    /\ UNCHANGED <<file, cls, call, ncalls, v1arg, v1res, hdr2, tag_body, idx,
                   metadata, frames, visited, last, result, sizeb, sizes,
                   instance, processed>>

\* a scope end that forgets the stream
Exit_leaves_open ==
    /\ pc = "idle"
    /\ pc' = "closed"
    /\ UNCHANGED <<file, cls, handle, pos, call, ncalls, v1arg, v1res, hdr2, tag_body,
                   idx, metadata, frames, visited, last, result, sizeb, sizes,
                   instance, processed>>

\* Tag.__exit__
Exit ==
    /\ pc = "idle"
    /\ handle' = "closed"
    /\ pc' = "closed"
    /\ UNCHANGED <<file, cls, pos, call, ncalls, v1arg, v1res, hdr2, tag_body, idx,
                   metadata, frames, visited, last, result, sizeb, sizes,
                   instance, processed>>

\* a call that ends without entering the while loop
Finish(c, r, p) ==
    /\ pc' = "idle"
    /\ call' = c
    /\ result' = r
    /\ pos' = p
    /\ tag_body' = << >>
    /\ idx' = 0
    /\ metadata' = << >>
    /\ frames' = << >>
    /\ visited' = << >>
    /\ last' = ""

\* a call that enters the while loop of get_v2 / content_v2
StartWalk(c, h) ==
    /\ pc' = "walk"
    /\ call' = c
    /\ UNCHANGED result
    /\ pos' = h.pos
    /\ tag_body' = h.tag_body
    /\ idx' = 0
    /\ metadata' = h.metadata
    /\ frames' = << >>
    /\ visited' = << >>
    /\ last' = ""

\* get_tag(stream[1]) with get_tag = get_v1
get_only_v1(stream, v1) ==
    /\ Finish("get",
              IF v1.kind = "raise" THEN Returned("get", "raise", NoValue, NoValue, v1.err)
              ELSE Returned("get", "v1", v1, NoValue, ""),
              stream.pos)
    /\ v1res' = NoValue

\* get_v2 alone (v1 is NoValue), or get_v1 and then get_v2
get_with_v2(stream, shape, v1, h) ==
    IF v1.kind = "raise"
    THEN /\ Finish("get", Returned("get", "raise", NoValue, NoValue, v1.err), stream.pos)
         /\ v1res' = NoValue
    ELSE IF h.ret = "return"
    THEN /\ Finish("get",
                   IF h.value.kind = "raise"
                   THEN Returned("get", "raise", NoValue, NoValue, h.value.err)
                   ELSE Returned("get", shape, v1, h.value, ""),
                   h.pos)
         /\ v1res' = NoValue
    ELSE /\ StartWalk("get", h)
         /\ v1res' = v1

\* what get does with the value of get_stream
get_dispatch(stream) ==
    IF stream.err # ""
    THEN /\ Finish("get", Returned("get", "raise", NoValue, NoValue, stream.err), pos)
         /\ UNCHANGED <<v1arg, v1res, hdr2>>
    ELSE
      /\ v1arg' = stream.headerv1
      /\ hdr2' = stream.headerv2
      /\ IF stream.ret = "None"
         THEN /\ Finish("get", Returned("get", "raise", NoValue, NoValue, "Exception"),
                        stream.pos)
              /\ v1res' = NoValue
         ELSE IF stream.ret = "get_v1"
         THEN get_only_v1(stream, get_v1(stream.headerv1))
         ELSE IF stream.ret = "get_v2"
         THEN get_with_v2(stream, "v2", NoValue,
                          get_v2_header(stream.headerv2, file, stream.pos))
         ELSE get_with_v2(stream, "both", get_v1(stream.headerv1),
                          get_v2_header(stream.headerv2, file, stream.pos))

\* Tag.get of frames.py, up to the while loop of get_v2
get ==
    /\ pc = "idle" /\ cls = "frames" /\ ncalls < MaxCalls
    /\ ncalls' = ncalls + 1
    /\ UNCHANGED <<file, cls, handle, sizeb, sizes,
                   instance, processed>>
    /\ get_dispatch(get_stream(file))

\* the end of content_v1: h is the value of _v1, v the cleaned fields
content_v1_return(h, v) ==
    /\ v1arg' = h.data
    /\ Finish("content_v1",
              IF v.kind = "raise"
              THEN Returned("content_v1", "raise", NoValue, NoValue, v.err)
              ELSE Returned("content_v1", "v1", v, NoValue, ""),
              IF h.err # "" THEN pos ELSE h.pos)

\* Tag.content_v1 of metadata.py
content_v1_call ==
    /\ pc = "idle" /\ cls = "metadata" /\ ncalls < MaxCalls
    /\ ncalls' = ncalls + 1
    /\ UNCHANGED <<file, cls, handle, hdr2, v1res, sizeb, sizes,
                   instance, processed>>
    /\ content_v1_return(_v1(file), content_v1(_v1(file)))

\* content_v2 before its while loop: stream is the value of _v2
content_v2_start(stream, h) ==
    /\ hdr2' = stream.data
    /\ IF h.ret = "return"
       THEN Finish("content_v2",
                   IF h.value.kind = "raise"
                   THEN Returned("content_v2", "raise", NoValue, NoValue, h.value.err)
                   ELSE Returned("content_v2", "v2", NoValue, h.value, ""),
                   h.pos)
       ELSE StartWalk("content_v2", h)

\* Tag.content_v2 of metadata.py, up to its while loop
content_v2_call ==
    /\ pc = "idle" /\ cls = "metadata" /\ ncalls < MaxCalls
    /\ ncalls' = ncalls + 1
    /\ UNCHANGED <<file, cls, handle, v1arg, v1res, sizeb, sizes,
                   instance, processed>>
    /\ content_v2_start(_v2(file, pos),
                        content_v2_header(_v2(file, pos).data, file, _v2(file, pos).pos))

\* the state after the iteration it
walk_step(it) ==
    /\ visited' = Append(visited, [off |-> idx, id |-> it.id, size |-> it.size,
                                   act |-> it.act, write |-> it.write])
    /\ last' = it.act
    /\ idx' = it.idx
    /\ frames' = it.frames
    /\ IF it.act = "raise"
       THEN /\ pc' = "idle"
            /\ result' = Returned(call, "raise", NoValue, NoValue, it.err)
       ELSE /\ pc' = "walk"
            /\ UNCHANGED result

\* one iteration of the while loop that does not break
WalkStep ==
    /\ pc = "walk"
    /\ walk_continues(tag_body, idx)
    /\ walk_step(walk_iteration(cls, tag_body, idx, frames))
    /\ UNCHANGED <<file, cls, handle, pos, call, ncalls, v1arg, v1res, hdr2, tag_body,
                   metadata, sizeb, sizes,
                   instance, processed>>

\* the loop ends (idx >= len(tag_body), or the break) and the method returns:
\* get_v2 returns metadata, content_v2 returns None
WalkReturn ==
    /\ pc = "walk"
    /\ ~walk_continues(tag_body, idx)
    /\ pc' = "idle"
    /\ last' = IF idx < Len(tag_body) THEN "break" ELSE "end"
    /\ result' = IF cls = "frames"
                 THEN Returned(call, IF v1res.kind = "absent" THEN "v2" ELSE "both",
                               v1res, VDict(metadata, frames), "")
                 ELSE Returned(call, "v2", NoValue, VNone, "")
    /\ UNCHANGED <<file, cls, handle, pos, call, ncalls, v1arg, v1res, hdr2, tag_body,
                   idx, metadata, frames, visited, sizeb, sizes,
                   instance, processed>>

Next ==
    \/ Enter
    \/ Exit
    \/ get
    \/ content_v1_call
    \/ content_v2_call
    \/ WalkStep
    \/ WalkReturn

Spec == Init /\ [][Next]_vars

(***************************************************************************)
(* The size decode alone, on every header over SyncBytes                   *)
(***************************************************************************)
SyncBytes == {0, 1, 2, 64, 127, 128, 129, 255}

InitSync ==
    /\ file \in {Header(3, 0, 0, 0)} \cup
                {TAGV2 \o <<3, 0, 0>> \o b : b \in [1..4 -> SyncBytes]}
    /\ sizeb = << >>
    /\ sizes = << >>
    /\ instance = NoInstance
    /\ processed = NoProcessed
    /\ cls = "" /\ handle = "none" /\ pos = 0 /\ pc = "new" /\ call = ""
    /\ ncalls = 0 /\ v1arg = None /\ v1res = NoValue /\ hdr2 = None
    /\ tag_body = << >> /\ idx = 0 /\ metadata = << >> /\ frames = << >>
    /\ visited = << >> /\ last = "" /\ result = NoResult

\* frame_header: stream.seek(6); sizeb = stream.read(4)
read_sizeb ==
    /\ sizeb = << >>
    /\ sizeb' = read(file, 6, 4).data
    /\ UNCHANGED <<sizes, tagvars>>

\* size = ... in get_v2
size_get_v2 ==
    /\ "get_v2" \notin DOMAIN sizes
    /\ sizes' = Put(sizes, "get_v2", synchsafe_get_v2(file))
    /\ UNCHANGED <<sizeb, tagvars>>

\* size = ... in content_v2
size_content_v2 ==
    /\ "content_v2" \notin DOMAIN sizes
    /\ sizes' = Put(sizes, "content_v2", synchsafe_content_v2(file))
    /\ UNCHANGED <<sizeb, tagvars>>

\* size = ... in frame_header
size_frame_header ==
    /\ sizeb # << >>
    /\ "frame_header" \notin DOMAIN sizes
    /\ sizes' = Put(sizes, "frame_header", synchsafe_frame_header(sizeb))
    /\ UNCHANGED <<sizeb, tagvars>>

NextSync ==
    \/ read_sizeb
    \/ size_get_v2
    \/ size_content_v2
    \/ size_frame_header

SpecSync == InitSync /\ [][NextSync]_vars

(***************************************************************************)
(* C5  The body size is b0<<21 | b1<<14 | b2<<7 | b3 over the low 7 bits   *)
(*     of header bytes 6..9: with every high bit clear it is               *)
(*     b0*2^21 + b1*2^14 + b2*2^7 + b3 and below 2^28; 0,0,2,1 gives 257;  *)
(*     get_v2, content_v2 and frame_header decode alike.                   *)
(***************************************************************************)
SizeBytes == SubSeq(file, 7, 10)

HighBitSet(b) == \E i \in 1..Len(b) : b[i] >= 128

Low7Sum(b) ==
    (b[1] % 128) * 2097152 + (b[2] % 128) * 16384 + (b[3] % 128) * 128 + (b[4] % 128)

C5_SynchsafeDecode ==
    /\ \A k \in DOMAIN sizes :
        /\ sizes[k] = Low7Sum(SizeBytes)
        /\ ~HighBitSet(SizeBytes) =>
               /\ sizes[k] = SizeBytes[1] * 2097152 + SizeBytes[2] * 16384
                             + SizeBytes[3] * 128 + SizeBytes[4]
               /\ sizes[k] < 268435456
        /\ SizeBytes = <<0, 0, 2, 1>> => sizes[k] = 257
    /\ \A j, k \in DOMAIN sizes : sizes[j] = sizes[k]
    /\ sizeb # << >> => sizeb = SizeBytes

C5_Witness ==
    /\ DOMAIN sizes = {"get_v2", "content_v2", "frame_header"}
    /\ SizeBytes = <<0, 0, 2, 1>>
    /\ sizes["get_v2"] = 257

(***************************************************************************)
(* The walk, as the history of visited records tells it                    *)
(***************************************************************************)
\* the 32-bit big-endian value in bytes 4..7 of the record header at offset o
BE32At(b, o) == b[o + 5] * 16777216 + b[o + 6] * 65536 + b[o + 7] * 256 + b[o + 8]

\* the four identifier bytes of the record header at offset o are ASCII
AsciiIdAt(b, o) == \A j \in 1..4 : b[o + j] < 128

\* what get_v2 stores for the k-th visited record
DecodeAt(k) ==
    second_item(process_frame(Frames_init(
        walk_body(tag_body, visited[k].off, visited[k].size),
        visited[k].id, visited[k].size, FALSE)))

Merged(id) == {k \in 1..Len(visited) : visited[k].act = "merged" /\ visited[k].id = id}

MaxOf(S) == CHOOSE k \in S : \A j \in S : j <= k

\* the call that ran has returned from the while loop
WalkEnded == pc = "idle" /\ last \in {"end", "break"}

(***************************************************************************)
(* C1  get_v2 visits records at offsets o_0 = 0, o_{k+1} = o_k + 10 +      *)
(*     size_k, size_k being the big-endian value in bytes 4..7 of the      *)
(*     header at o_k; a decoded record is stored under its 4-character     *)
(*     identifier, and the entry of an identifier after the walk is the    *)
(*     decode of the last record that carries it.                          *)
(***************************************************************************)
C1_WalkOffsetsLastWins ==
    cls = "frames" =>
        /\ \A k \in 1..Len(visited) :
            /\ visited[k].off = IF k = 1 THEN 0
                                ELSE visited[k - 1].off + 10
                                     + BE32At(tag_body, visited[k - 1].off)
            /\ visited[k].act # "raise" =>
                   /\ visited[k].size = BE32At(tag_body, visited[k].off)
                   /\ visited[k].id = SubSeq(tag_body, visited[k].off + 1,
                                             visited[k].off + 4)
            /\ visited[k].act = "merged" => visited[k].id \in DOMAIN frames
        /\ (pc = "walk" /\ visited # << >>) =>
               idx = visited[Len(visited)].off + 10
                     + BE32At(tag_body, visited[Len(visited)].off)
        /\ \A id \in DOMAIN frames :
               Merged(id) # {} /\ frames[id] = DecodeAt(MaxOf(Merged(id)))
        /\ WalkEnded => result.v2.kind = "dict" /\ result.v2.frames = frames

C1_Witness ==
    /\ cls = "frames" /\ WalkEnded
    /\ Len(visited) = 2
    /\ visited[1].id = ID_TIT2 /\ visited[2].id = ID_TIT2
    /\ visited[1].act = "merged" /\ visited[2].act = "merged"
    /\ visited[2].off = 12
    /\ DecodeAt(1) # DecodeAt(2)
    /\ result.v2.frames[ID_TIT2] = DecodeAt(2)

C3_TruncatedHeaderStops ==
    [][(/\ cls = "frames"
        /\ pc = "walk"
        /\ Len(tag_body) - idx < 10)
       => (/\ pc' = "idle"
           /\ result'.ret \in {"v2", "both"}
           /\ result'.v2.kind = "dict"
           /\ result'.v2.frames = frames
           /\ \A k \in 1..Len(visited) :
                  visited[k].act = "merged" => visited[k].id \in DOMAIN result'.v2.frames
           /\ visited' = visited)]_vars

C3_Witness ==
    /\ cls = "frames" /\ pc = "idle" /\ last = "break"
    /\ idx < Len(tag_body) /\ Len(tag_body) - idx < 10
    /\ result.ret = "v2"
    /\ \E k \in 1..Len(visited) :
           visited[k].act = "merged" /\ visited[k].id \in DOMAIN result.v2.frames

(***************************************************************************)
(* C4  A record whose identifier is not in the decode table is skipped:    *)
(*     no entry is added for it, no error is raised, and the walk goes on  *)
(*     at offset + 10 + size.                                              *)
(***************************************************************************)
KnownIds == DOMAIN M_MAP

C4_UnknownIdSkipped ==
    \A k \in 1..Len(visited) :
        (/\ Len(visited[k].id) = 4
         /\ visited[k].id \notin KnownIds
         /\ visited[k].act \notin {"zero", "empty"})
        => /\ visited[k].act = "none"
           /\ visited[k].id \notin DOMAIN frames

(***************************************************************************)
(* The chunked-tag reader, as its call tells it                            *)
(***************************************************************************)
\* get_v2 or content_v2 ran on a 10-byte header, no legacy tag before it,
\* and the call is over
V2Ran ==
    /\ pc = "idle"
    /\ call \in {"get", "content_v2"}
    /\ v1arg = None
    /\ hdr2 # None /\ Len(hdr2) = HeaderLen

Major == hdr2[4]

FlagByte == hdr2[6]

\* the call decoded the body size and read the body
SizeDecoded == pc = "walk" \/ last # ""

VersionFields == {"Identifier", "Version", "Full Version"}

FlagFields ==
    {"Flags", "Flags Hex", "Flags Bits", "Unsynchronisation", "Extended Header",
     "Experimental Indicator", "Footer Present"}

(***************************************************************************)
(* C6  The size decode does not succeed on a size byte with the high bit   *)
(*     set: it reports an error and no size is used.                       *)
(***************************************************************************)
C6_HighBitRejected ==
    (/\ call \in {"get", "content_v2"}
     /\ hdr2 # None /\ Len(hdr2) = HeaderLen
     /\ HighBitSet(SubSeq(hdr2, 7, 10)))
    => ~SizeDecoded

(***************************************************************************)
(* C7  With major version >= 5 the reader returns the header fields        *)
(*     Identifier, Version, Full Version and nothing else: no flag field,  *)
(*     no body read, no record entry.  With major version < 5 the flag     *)
(*     byte is interpreted.                                                *)
(***************************************************************************)
C7_UnsupportedVersion ==
    V2Ran =>
        IF Major >= 5
        THEN /\ result.ret = "v2"
             /\ result.v2.kind = "dict"
             /\ DOMAIN result.v2.metadata = VersionFields
             /\ result.v2.frames = << >>
             /\ visited = << >>
             /\ pos = HeaderLen
        ELSE result.v2.kind = "dict" => FlagFields \subseteq DOMAIN result.v2.metadata

(***************************************************************************)
(* C8  With major version < 5 and one of the four low flag bits set the    *)
(*     reader walks no record and returns the header fields with           *)
(*     Other Flags = NOT CLEARED; with the four bits clear a returned      *)
(*     mapping has Other Flags = CLEARED.                                  *)
(***************************************************************************)
C8_UndefinedFlags ==
    (V2Ran /\ Major < 5) =>
        IF FlagByte % 16 # 0
        THEN /\ result.ret = "v2"
             /\ result.v2.kind = "dict"
             /\ VersionFields \cup FlagFields \subseteq DOMAIN result.v2.metadata
             /\ "Other Flags" \in DOMAIN result.v2.metadata
             /\ result.v2.metadata["Other Flags"] = "NOT CLEARED"
             /\ visited = << >>
        ELSE result.v2.kind = "dict" =>
                 /\ "Other Flags" \in DOMAIN result.v2.metadata
                 /\ result.v2.metadata["Other Flags"] = "CLEARED"

(***************************************************************************)
(* C9  With major version < 5 and the extended-header bit 0x40 set the     *)
(*     reader walks no record and returns the header fields, among them    *)
(*     Extended Header = TRUE.                                             *)
(***************************************************************************)
C9_ExtendedHeaderReported ==
    (V2Ran /\ Major < 5 /\ (FlagByte \div 64) % 2 = 1) =>
        /\ visited = << >>
        /\ result.ret = "v2"
        /\ result.v2.kind = "dict"
        /\ VersionFields \cup FlagFields \subseteq DOMAIN result.v2.metadata
        /\ result.v2.metadata["Extended Header"] = TRUE

(***************************************************************************)
(* C10 For a source of at least 128 bytes, get_stream and _v1 report a     *)
(*     legacy tag iff the 3 bytes at offset length - 128 are "TAG", and    *)
(*     the record they hand on is the last 128 bytes of the source.        *)
(***************************************************************************)
TagAtEnd == SubSeq(file, Len(file) - 127, Len(file) - 125) = TAGV1

LastRecord == SubSeq(file, Len(file) - 127, Len(file))

C10_LegacyTagDetection ==
    (/\ Len(file) >= 128
     /\ \/ cls = "frames" /\ call = "get"
        \/ cls = "metadata" /\ call = "content_v1")
    => /\ v1arg # None <=> TagAtEnd
       /\ v1arg # None => v1arg = LastRecord
       /\ cls = "frames" /\ ~TagAtEnd => result.ret \notin {"v1", "both"}
       /\ cls = "metadata" =>
              (TagAtEnd <=> ~(result.v1.kind = "exc" /\ result.v1.err = "Exception"))

C10_Witness ==
    /\ cls = "frames" /\ call = "get" /\ pc = "idle"
    /\ Len(file) > 128
    /\ TagAtEnd
    /\ SubSeq(file, 1, 3) # TAGV2
    /\ v1arg = LastRecord
    /\ result.ret = "v1"
    /\ result.v1.kind = "dict"

(***************************************************************************)
(* Sources without a tag                                                   *)
(***************************************************************************)
NoLegacyTag == Len(file) < TagV1Len \/ ~TagAtEnd

NoChunkedTag == Slice(file, 0, 3) # TAGV2

\* the first call on the Tag is over
FirstCallOver == pc = "idle" /\ ncalls = 1

(***************************************************************************)
(* C11 On a source without the tag a call looks for, get, content_v1 and   *)
(*     content_v2 complete without raising and give no error value.        *)
(***************************************************************************)
C11_AbsenceIsNotAnError ==
    FirstCallOver =>
        /\ (call = "get" /\ NoLegacyTag /\ NoChunkedTag) => result.ret # "raise"
        /\ (call = "content_v1" /\ NoLegacyTag) =>
               result.ret # "raise" /\ result.v1.kind # "exc"
        /\ (call = "content_v2" /\ NoChunkedTag) =>
               result.ret # "raise" /\ result.v2.kind # "exc"

(***************************************************************************)
(* C12 After the cleaning pass every text field of the legacy record is    *)
(*     None or a non-empty string without NUL and without leading or       *)
(*     trailing whitespace.                                                *)
(***************************************************************************)
TextLabels == {"Identifier", "Title", "Artist", "Album", "Year", "Comments"}

\* the legacy record a call returned
LegacyReturned == result.v1.kind = "dict" /\ "Genre" \in DOMAIN result.v1.metadata

CleanText(v) ==
    \/ v = None
    \/ /\ v # << >>
       /\ \A i \in 1..Len(v) : v[i] # 0
       /\ ~IsSpace(v[1])
       /\ ~IsSpace(v[Len(v)])

C12_CleanedTextFields ==
    LegacyReturned => \A l \in TextLabels : CleanText(result.v1.metadata[l])

\* a title " A " padded with NULs comes out as "A", the empty album as None
C12_Witness ==
    /\ LegacyReturned
    /\ v1arg # None
    /\ SubSeq(v1arg, 4, 7) = <<32, 65, 32, 0>>
    /\ result.v1.metadata["Title"] = <<65>>
    /\ result.v1.metadata["Album"] = None

(***************************************************************************)
(* C13 For every genre byte: a valid index into the genre table gives the  *)
(*     table entry at that index as Genre, an index outside the table      *)
(*     makes the parse fail; no byte gives a default or a wrong entry.     *)
(***************************************************************************)
\* the genre byte, at offset 127 of the legacy record
GenreByte == v1arg[128]

\* a call that decoded the legacy record only, with text fields that decode
LegacyDecoded ==
    /\ pc = "idle"
    /\ v1arg # None
    /\ call = "content_v1" \/ (call = "get" /\ NoChunkedTag)
    /\ \A l \in TextLabels : decode_utf8(v1_fields(v1arg)[l], FALSE).ok

CallEnds == pc' = "idle" /\ (ncalls' = ncalls + 1 \/ pc = "walk")

C14_ParseTwiceSameOutput ==
    [][(/\ CallEnds
        /\ call' \in {"get", "content_v1"}
        /\ result.call = call')
       => result' = result]_vars

\* a second get that walked the chunked tag and decoded the legacy tag
C14_Witness ==
    /\ cls = "frames" /\ pc = "idle" /\ ncalls = 2
    /\ call = "get" /\ result.call = "get"
    /\ result.ret = "both"
    /\ result.v1.metadata["Title"] = <<65>>
    /\ ID_TIT2 \in DOMAIN result.v2.frames


(***************************************************************************)
(* The audio frame header: utils.frame_header and Metadata._frame_len      *)
(***************************************************************************)
\* bin(n) without the 0b prefix
RECURSIVE bin_digits(_)
bin_digits(n) ==
    IF n < 2 THEN <<48 + n>> ELSE bin_digits(n \div 2) \o <<48 + (n % 2)>>

\* format(n, "0<width>b"): zero-filled on the left up to width, never cut
format_0b(n, width) ==
    [i \in 1..(width - Len(bin_digits(n))) |-> 48] \o bin_digits(n)

\* an int a function gives back
VInt(n) ==
    [kind |-> "int", metadata |-> << >>, frames |-> << >>, s |-> <<n>>, err |-> ""]

\* what frame_header gives: the tuple (sync, header bits) or the error raised
RetHeader(sync, bits) == [err |-> "", sync |-> sync, bits |-> bits]

RaiseHeader(e) == [err |-> e, sync |-> << >>, bits |-> << >>]

\* "".join(format(byte, "08b") for byte in header)
header_bits(header) ==
    fmt_08b(header[1]) \o fmt_08b(header[2]) \o fmt_08b(header[3]) \o fmt_08b(header[4])

\* sync12 = (header[0] << 4) | (header[1] >> 4)
sync12(header) == BitOr(Shl(header[1], 4), Shr(header[2], 4))

\* sync11 = (header[0] << 3) | (header[1] >> 5)
sync11(header) == BitOr(Shl(header[1], 3), Shr(header[2], 5))

\* frame_header from header = stream.read(4) on
frame_header_sync(header) ==
    IF Len(header) # 4 THEN RaiseHeader("Invalid Frame Header")
    ELSE IF BitAnd(sync11(header), 2047) = 2047
    THEN RetHeader(format_0b(sync11(header), 11), header_bits(header))
    ELSE IF BitAnd(sync12(header), 4094) = 4094
    THEN RetHeader(format_0b(sync12(header), 12), header_bits(header))
    ELSE RaiseHeader("Frame Synchronizer bits are not set")

\* frame_header after stream.seek(6); sizeb = stream.read(4)
frame_header_skip(f, b) ==
    IF Len(b) < 4 THEN RaiseHeader("IndexError")
    ELSE frame_header_sync(read(f, HeaderLen + synchsafe_frame_header(b), 4).data)

\* utils.frame_header
frame_header(f) ==
    IF read(f, 0, 3).data = TAGV2
    THEN frame_header_skip(f, read(f, 6, 4).data)
    ELSE frame_header_sync(read(f, 0, 4).data)

\* the Metadata accessors _frame_len reads: each is a bare return
_bitrate == VNone

_sample_rate == VNone

_padding == VNone

\* int((144 * bitrate / sample_rate) + padding) on ints (never negative
\* here): true division, then truncation; None as an operand is a TypeError
frame_len_expr(bitrate, sample_rate, padding) ==
    IF bitrate.kind # "int" \/ sample_rate.kind # "int" \/ padding.kind # "int"
    THEN [err |-> "TypeError", n |-> 0]
    ELSE IF sample_rate.s[1] = 0 THEN [err |-> "ZeroDivisionError", n |-> 0]
    ELSE [err |-> "",
          n |-> (144 * bitrate.s[1] + padding.s[1] * sample_rate.s[1])
                    \div sample_rate.s[1]]

\* Metadata._frame_len
_frame_len == frame_len_expr(_bitrate, _sample_rate, _padding)

\* first and second header bytes tried: around the 11-bit and 12-bit patterns
HeaderByte1 == {255, 254, 127, 0}

HeaderByte2 == {255, 251, 250, 240, 239, 224, 223, 0}

\* third header bytes: 0xB0 is bitrate index 11, sample rate index 0, no
\* padding; 0xB2 the same with padding
HeaderByte3 == {176, 178, 0}

FrameHeaders ==
    {<<a, b, c, 0>> : a \in HeaderByte1, b \in HeaderByte2, c \in HeaderByte3}

\* audio files: a frame header at offset 0, or behind a chunked tag, or cut
AudioFiles ==
    FrameHeaders
    \cup {Header(3, 0, 0, n) \o Pad(n) \o h : n \in {0, 2}, h \in FrameHeaders}
    \cup {<< >>, <<255>>, <<255, 251, 176>>, TAGV2, TAGV2 \o <<3, 0, 0, 0>>,
          Header(3, 0, 0, 0), Header(3, 0, 0, 5) \o <<255, 251, 176, 0>>}

InitAudio ==
    /\ file \in AudioFiles
    /\ cls = "" /\ handle = "none" /\ pos = 0 /\ pc = "audio" /\ call = ""
    /\ ncalls = 0 /\ v1arg = None /\ v1res = NoValue /\ hdr2 = None
    /\ tag_body = << >> /\ idx = 0 /\ metadata = << >> /\ frames = << >>
    /\ visited = << >> /\ last = "" /\ result = NoResult
    /\ sizeb = << >> /\ sizes = << >>
    /\ instance = NoInstance /\ processed = NoProcessed

\* a call of a function of the audio frame header ends
EndAudio(c, ret, v1, v2, e) ==
    /\ ncalls < MaxCalls
    /\ ncalls' = ncalls + 1
    /\ call' = c
    /\ result' = Returned(c, ret, v1, v2, e)
    /\ UNCHANGED <<file, cls, pos, pc, v1arg, v1res, hdr2, tag_body, idx,
                   metadata, frames, visited, last, sizeb, sizes,
                   instance, processed>>

frame_header_return(r) ==
    IF r.err # ""
    THEN EndAudio("frame_header", "raise", NoValue, NoValue, r.err)
    ELSE EndAudio("frame_header", "both", VStr(r.sync), VStr(r.bits), "")

\* frame_header(audio): the body runs inside with audio.open("rb") as stream,
\* which closes the stream when the block is left, by return or by raise
frame_header_call ==
    /\ frame_header_return(frame_header(file))
    /\ handle' = "closed"

frame_len_return(r) ==
    IF r.err # ""
    THEN EndAudio("_frame_len", "raise", NoValue, NoValue, r.err)
    ELSE EndAudio("_frame_len", "v1", VInt(r.n), NoValue, "")

\* Metadata(audio)._frame_len(): no stream is opened
frame_len_call ==
    /\ frame_len_return(_frame_len)
    /\ UNCHANGED handle

NextAudio ==
    \/ frame_header_call
    \/ frame_len_call

SpecAudio == InitAudio /\ [][NextAudio]_vars

(***************************************************************************)
(* C15 For every 4-byte header frame_header meets: top 11 bits all 1 gives *)
(*     an 11-character sync string; top 12 bits all 1 gives a              *)
(*     12-character sync string; neither gives the sync error.             *)
(***************************************************************************)
\* the 4 bytes frame_header reads as the header, when the file has them
AudioStart ==
    IF Slice(file, 0, 3) = TAGV2
    THEN HeaderLen + Low7Sum(SizeBytes)
    ELSE 0

AudioHeader == Slice(file, AudioStart, AudioStart + 4)

HeaderRead ==
    /\ result.call = "frame_header"
    /\ Slice(file, 0, 3) = TAGV2 => Len(file) >= HeaderLen
    /\ Len(AudioHeader) = 4

Top11 == AudioHeader[1] = 255 /\ AudioHeader[2] >= 224

Top12 == AudioHeader[1] = 255 /\ AudioHeader[2] >= 240

SyncLen == Len(result.v1.s)

C15_SyncDetection ==
    HeaderRead =>
        /\ Top12 => result.ret = "both" /\ SyncLen = 12
        /\ (Top11 /\ ~Top12) => result.ret = "both" /\ SyncLen = 11
        /\ ~Top11 => result.ret = "raise"

\* the part of C15 the code meets
C15_ElevenOrError ==
    HeaderRead =>
        /\ Top11 => result.ret = "both" /\ SyncLen = 11
        /\ ~Top11 => result.ret = "raise" /\ result.err = "Frame Synchronizer bits are not set"

C15_Witness ==
    /\ HeaderRead
    /\ Slice(file, 0, 3) = TAGV2
    /\ AudioHeader = <<255, 251, 176, 0>>
    /\ result.v1.s = [i \in 1..11 |-> 49]


(***************************************************************************)
(* C16 The Layer II/III frame length is                                    *)
(*     144 * bitrate_kbps * 1000 / sample_rate + padding, truncated: for   *)
(*     MPEG1, Layer III, 192 kbps, 44100 Hz, padding 0 _frame_len gives    *)
(*     627.                                                                *)
(***************************************************************************)
\* header FF FB B0 00: version bits 11 (MPEG1), layer bits 01 (Layer III),
\* bitrate index 1011 (192 kbps), sample rate index 00 (44100 Hz), padding 0
Mpeg1Layer3At192 ==
    /\ Slice(file, 0, 3) = TAGV2 => Len(file) >= HeaderLen
    /\ AudioHeader = <<255, 251, 176, 0>>

C16_FrameLength ==
    (result.call = "_frame_len" /\ Mpeg1Layer3At192) =>
        /\ result.ret = "v1"
        /\ result.v1 = VInt(627)
        /\ result.v1 = VInt(frame_len_expr(VInt(192 * 1000), VInt(44100), VInt(0)).n)

C16_Witness == result.call = "_frame_len" /\ Mpeg1Layer3At192


(***************************************************************************)
(* C17 A decode failure inside one record, and the outcome of a            *)
(*     recognized-but-undecoded record, stay inside that record: the walk  *)
(*     goes on at offset + 10 + size and the entries merged from earlier   *)
(*     records are kept.                                                   *)
(***************************************************************************)
\* the record the walk is about to visit has an identifier, a size and a body
RecordAtIdx ==
    /\ pc = "walk"
    /\ walk_continues(tag_body, idx)
    /\ AsciiIdAt(tag_body, idx)
    /\ BE32At(tag_body, idx) > 0
    /\ walk_body(tag_body, idx, BE32At(tag_body, idx)) # << >>

IdAtIdx == SubSeq(tag_body, idx + 1, idx + 4)

\* what the class's process_frame gives for the record at idx
ProcessedAtIdx ==
    IF cls = "frames"
    THEN process_frame(Frames_init(walk_body(tag_body, idx, BE32At(tag_body, idx)),
                                   IdAtIdx, BE32At(tag_body, idx), FALSE))
    ELSE M_process_frame(M_Frames_init(walk_body(tag_body, idx, BE32At(tag_body, idx)),
                                       IdAtIdx, BE32At(tag_body, idx), FALSE))

Undecoded == {ID_ETCO, ID_MLLT, ID_SYTC, ID_SYLT}

\* the walk goes past the record at idx and keeps what it had
Contained ==
    /\ pc' = "walk"
    /\ idx' = idx + 10 + BE32At(tag_body, idx)
    /\ \A id \in DOMAIN frames :
           id \in DOMAIN frames' /\ (id # IdAtIdx => frames'[id] = frames[id])

C17_FailureContained ==
    [][(RecordAtIdx /\ (ProcessedAtIdx.kind = "raise" \/ IdAtIdx \in Undecoded))
       => Contained]_vars

\* the part the code meets: a record whose decoder does not raise is contained
C17_NoRaiseContained ==
    [][(RecordAtIdx /\ ProcessedAtIdx.kind # "raise") => Contained]_vars

C17_Witness ==
    /\ pc = "idle" /\ last = "raise"
    /\ Len(visited) = 2
    /\ visited[1].act = "merged" /\ visited[1].id = ID_TIT2
    /\ visited[2].id = ID_SYTC
    /\ result.ret = "raise" /\ result.err = "IndexError"


(***************************************************************************)
(* C18 A record with a recognized-but-undecoded identifier (ETCO, MLLT,    *)
(*     SYTC, SYLT) and a non-empty body decodes to the 'not implemented'   *)
(*     marker, and the walk stores that marker under the identifier.       *)
(***************************************************************************)
NotImplementedEntry == [shape |-> "text", v |-> NotImplemented]

C18_NotImplementedStored ==
    [][(RecordAtIdx /\ IdAtIdx \in Undecoded)
       => (/\ ProcessedAtIdx = RetStr(NotImplemented)
           /\ pc' = "walk"
           /\ IdAtIdx \in DOMAIN frames'
           /\ frames'[IdAtIdx] = NotImplementedEntry)]_vars

\* get_v2 has returned a mapping whose MLLT entry is one character
C18_Witness ==
    /\ cls = "frames" /\ WalkEnded
    /\ \E k \in 1..Len(visited) : visited[k].id = ID_MLLT /\ visited[k].act = "merged"
    /\ ID_MLLT \in DOMAIN result.v2.frames
    /\ result.v2.frames[ID_MLLT] = [shape |-> "text", v |-> <<111>>]


(***************************************************************************)
(* The decoders on their own: Frames(body, id, size).process_frame()       *)
(***************************************************************************)
\* record bodies handed to Frames: the encoding byte and a payload that is
\* empty, a NUL, text, or description NUL value
DecodeBodies ==
    {<<0>>, <<0, 0>>, <<1>>, <<1, 0>>, <<1, 0, 0>>, <<2>>, <<2, 0, 0>>, <<3>>, <<3, 0>>,
     <<0, 65>>, <<0, 32, 65, 32>>, <<0, 49, 50>>, <<0, 65, 0, 66>>,
     <<1, 255, 254, 65, 0>>, <<3, 195, 169>>, <<0, 101, 110, 103, 0, 65>>,
     <<1, 255, 254, 65, 0, 0, 0, 66>>,
     <<3, 65, 0, 233>>, <<0, 65, 0, 233>>,
     <<104, 116, 116, 112>>, Picture(3), Picture(2),
     <<0, 101, 110, 103, 0, 65, 1, 233>>,
     <<1, 101, 110, 103, 255, 254, 65, 0, 0, 0, 255, 254, 66, 0>>}

DecodeIds == DOMAIN M_MAP \cup {ID_ZZZZ}

InitDecode ==
    /\ cls \in {"frames", "metadata"}
    /\ instance \in {[id |-> i, body |-> b, size |-> Len(b), save_image |-> w] :
                         i \in DecodeIds, b \in DecodeBodies, w \in BOOLEAN}
    /\ processed = NoProcessed
    /\ file = << >> /\ handle = "none" /\ pos = 0 /\ pc = "decode" /\ call = ""
    /\ ncalls = 0 /\ v1arg = None /\ v1res = NoValue /\ hdr2 = None
    /\ tag_body = << >> /\ idx = 0 /\ metadata = << >> /\ frames = << >>
    /\ visited = << >> /\ last = "" /\ result = NoResult
    /\ sizeb = << >> /\ sizes = << >>

\* process_frame ran on the instance and gave r
process_frame_return(r) ==
    /\ processed = NoProcessed
    /\ processed' = r
    /\ UNCHANGED <<file, cls, handle, pos, pc, call, ncalls, v1arg, v1res, hdr2,
                   tag_body, idx, metadata, frames, visited, last, result, sizeb,
                   sizes, instance>>

\* frames.py: Frames(body, id, size).process_frame()
process_frame_call ==
    /\ cls = "frames"
    /\ process_frame_return(
           process_frame(Frames_init(instance.body, instance.id, instance.size,
                                     instance.save_image)))

\* metadata.py: Frames(body, id, size).process_frame()
M_process_frame_call ==
    /\ cls = "metadata"
    /\ process_frame_return(
           M_process_frame(M_Frames_init(instance.body, instance.id, instance.size,
                                         instance.save_image)))

NextDecode ==
    \/ process_frame_call
    \/ M_process_frame_call

SpecDecode == InitDecode /\ [][NextDecode]_vars

(***************************************************************************)
(* C19 For every identifier of metadata.py's Frames.MAP and every          *)
(*     non-empty body, process_frame returns a field set whose ID is the   *)
(*     identifier, whose 'Part of' is the table's label for it and whose   *)
(*     'Frame Size' is the declared size; it never raises and never        *)
(*     returns nothing.                                                    *)
(***************************************************************************)
Dispatched ==
    /\ cls = "metadata"
    /\ processed # NoProcessed
    /\ instance.id \in DOMAIN M_MAP
    /\ instance.body # << >>

IsFieldSet ==
    /\ processed.kind = "dict"
    /\ processed.v.ID = instance.id
    /\ processed.v.PartOf = M_MAP[instance.id][1]
    /\ processed.v.FrameSize = instance.size

C19_EveryTableIdDecodes == Dispatched => IsFieldSet

\* the identifiers whose decoder is a method that gives a field set for any body
WithDecoder ==
    {i \in DOMAIN M_MAP :
        /\ M_MAP[i][2] \in M_methods
        /\ M_MAP[i][2] \notin {"_txxx", "_etoc", "_mllt", "_sytc", "_sylt", "_apic"}}

C19_WithDecoder == (Dispatched /\ instance.id \in WithDecoder) => IsFieldSet

C19_Witness ==
    /\ Dispatched
    /\ instance.id = ID_TXXX
    /\ instance.body = <<0, 65, 0, 66>>
    /\ processed.kind = "raise" /\ processed.err = "KeyError"


(***************************************************************************)
(* C20 A record whose payload after the encoding byte is empty, or is only *)
(*     the null terminator of its encoding, decodes to fields that are     *)
(*     present and empty: Information is the empty string for a plain-text *)
(*     identifier, description and URL are empty for WXXX; the decoder     *)
(*     gives neither None nor an absent field.                             *)
(***************************************************************************)
Payload == SliceFrom(instance.body, 1)

\* one NUL byte, two under the UTF-16 selectors 1 and 2
NulTerminator == IF instance.body[1] \in {1, 2} THEN <<0, 0>> ELSE <<0>>

EmptyPayload == processed # NoProcessed /\ Payload \in {<< >>, NulTerminator}

\* the T identifiers decoded as one text: Information
PlainTextIds == {i \in DOMAIN M_MAP : i[1] = 84 /\ M_MAP[i][2] \in M_plain}

EmptyInformation ==
    IF cls = "metadata"
    THEN processed.kind = "dict" /\ processed.v.f = [Information |-> << >>]
    ELSE processed.kind = "tuple" /\ processed.shape = "text" /\ processed.v = << >>

EmptyDescriptionAndURL ==
    IF cls = "metadata"
    THEN processed.kind = "dict" /\ processed.v.f = [Description |-> << >>, URL |-> << >>]
    ELSE processed.kind = "tuple" /\ processed.v = << << >>, << >> >>

C20_EmptyPayloadEmptyFields ==
    EmptyPayload =>
        /\ instance.id \in PlainTextIds => EmptyInformation
        /\ instance.id = ID_WXXX => EmptyDescriptionAndURL

\* the part the code meets: the payload is empty or the single byte 00
C20_SingleNul ==
    (processed # NoProcessed /\ Payload \in {<< >>, <<0>>}) =>
        /\ instance.id \in PlainTextIds => EmptyInformation
        /\ instance.id = ID_WXXX => EmptyDescriptionAndURL

C20_Witness ==
    /\ cls = "metadata"
    /\ instance.id = ID_WXXX
    /\ instance.body = <<1, 0, 0>>
    /\ processed.kind = "dict"
    /\ processed.v.f = [Description |-> << >>, URL |-> <<0>>]


(***************************************************************************)
(* C21 In TXXX, WXXX, COMM and USLT the description ends at a terminator   *)
(*     as wide as the encoding of the first byte: one 00 byte for Latin-1  *)
(*     and UTF-8, the pair 00 00 for the UTF-16 selectors, so a UTF-16     *)
(*     description with a zero byte inside a character is not cut there.   *)
(***************************************************************************)
\* offset of the first 00 00 pair at an even offset, or past the end
RECURSIVE FindWideNul(_)
FindWideNul(b) ==
    IF Len(b) < 2 THEN Len(b)
    ELSE IF b[1] = 0 /\ b[2] = 0 THEN 0
    ELSE 2 + FindWideNul(SubSeq(b, 3, Len(b)))

WideSelector == instance.body[1] \in {1, 2}

BeforeTerminator(b) ==
    IF WideSelector THEN Slice(b, 0, FindWideNul(b)) ELSE Slice(b, 0, FindNul(b))

SelectedEncoding == _encode([encoding |-> instance.body[1]])

PairIds == {ID_TXXX, ID_WXXX}

LanguageIds == {ID_COMM, ID_USLT}

\* the description the claim expects of the instance
ExpectedDescription ==
    IF instance.id \in PairIds
    THEN strip(decode(BeforeTerminator(Payload), SelectedEncoding, TRUE).s)
    ELSE LET d == decode(BeforeTerminator(SliceFrom(Payload, 3)), SelectedEncoding, FALSE)
         IN  IF d.ok THEN d.s ELSE None

DescriptionGiven ==
    IF cls = "metadata"
    THEN processed.kind = "dict" /\ processed.v.f.Description = ExpectedDescription
    ELSE processed.kind = "tuple" /\ processed.v[1] = ExpectedDescription

C21_TerminatorWidth ==
    (processed # NoProcessed /\ instance.id \in PairIds \cup LanguageIds)
        => DescriptionGiven

\* the part the code meets: the one-byte selectors (metadata.py's TXXX aside,
\* which raises KeyError before it returns anything)
C21_OneByteSelectors ==
    (/\ processed # NoProcessed
     /\ instance.id \in PairIds \cup LanguageIds
     /\ ~WideSelector
     /\ ~(cls = "metadata" /\ instance.id = ID_TXXX))
        => DescriptionGiven

\* UTF-16 "A", 00 00, "B": the description comes out empty
C21_Witness ==
    /\ cls = "frames"
    /\ instance.id = ID_WXXX
    /\ instance.body = <<1, 255, 254, 65, 0, 0, 0, 66>>
    /\ ExpectedDescription = <<65>>
    /\ processed.kind = "tuple"
    /\ processed.v[1] = << >>


(***************************************************************************)
(* C22 For WXXX, whatever the selector byte, the description is decoded    *)
(*     with the selected encoding and the URL as Latin-1; for TXXX both    *)
(*     description and value are decoded with the selected encoding.       *)
(***************************************************************************)
\* what follows the terminator the description ends at
AfterTerminator(b) ==
    IF WideSelector THEN SliceFrom(b, FindWideNul(b) + 2) ELSE SliceFrom(b, FindNul(b) + 1)

ExpectedValue ==
    IF instance.id = ID_WXXX
    THEN strip(decode(AfterTerminator(Payload), "ISO-8859-1", TRUE).s)
    ELSE strip(decode(AfterTerminator(Payload), SelectedEncoding, TRUE).s)

PairGiven ==
    IF cls = "frames"
    THEN processed.kind = "tuple"
         /\ processed.v = <<ExpectedDescription, ExpectedValue>>
    ELSE processed.kind = "dict"
         /\ processed.v.f = IF instance.id = ID_WXXX
                            THEN [Description |-> ExpectedDescription, URL |-> ExpectedValue]
                            ELSE [Description |-> ExpectedDescription, Value |-> ExpectedValue]

C22_PairEncodings ==
    (processed # NoProcessed /\ instance.id \in PairIds) => PairGiven

\* the part the code meets: metadata.py's WXXX and frames.py's TXXX, under the
\* one-byte selectors
C22_WhereMet ==
    (/\ processed # NoProcessed
     /\ ~WideSelector
     /\ \/ cls = "metadata" /\ instance.id = ID_WXXX
        \/ cls = "frames" /\ instance.id = ID_TXXX)
        => PairGiven

\* selector 3, description "A", URL byte E9: not UTF-8, so the URL is lost
C22_Witness ==
    /\ cls = "frames"
    /\ instance.id = ID_WXXX
    /\ instance.body = <<3, 65, 0, 233>>
    /\ ExpectedValue = <<233>>
    /\ processed.kind = "tuple"
    /\ processed.v = << <<65>>, << >> >>


(***************************************************************************)
(* C23 A pure URL record (identifier W..., not WXXX) has no encoding byte: *)
(*     its whole body, first byte included, is decoded as Latin-1.  MCDI   *)
(*     does have one: its first byte selects the encoding and is not part  *)
(*     of the decoded text.  (NUL characters are dropped from both.)       *)
(***************************************************************************)
PureUrlIds == {i \in DOMAIN M_MAP : i[1] = 87 /\ i # ID_WXXX}

ExpectedUrl == replace_nul(decode(instance.body, "ISO-8859-1", TRUE).s)

ExpectedToc == replace_nul(decode(Payload, SelectedEncoding, TRUE).s)

TextGiven(field, text) ==
    IF cls = "frames"
    THEN processed.kind = "tuple" /\ processed.shape = "text" /\ processed.v = text
    ELSE processed.kind = "dict" /\ field \in DOMAIN processed.v.f
         /\ processed.v.f[field] = text

C23_UrlAndToc ==
    processed # NoProcessed =>
        /\ instance.id \in PureUrlIds => TextGiven("Information", ExpectedUrl)
        /\ instance.id = ID_MCDI => TextGiven("CDTOC", ExpectedToc)

\* the part the code meets: frames.py's URL records and metadata.py's MCDI
C23_WhereMet ==
    processed # NoProcessed =>
        /\ (cls = "frames" /\ instance.id \in PureUrlIds)
               => TextGiven("Information", ExpectedUrl)
        /\ (cls = "metadata" /\ instance.id = ID_MCDI) => TextGiven("CDTOC", ExpectedToc)

\* metadata.py reads the h of "http" as the encoding byte
C23_Witness ==
    /\ cls = "metadata"
    /\ instance.id = ID_WOAR
    /\ instance.body = <<104, 116, 116, 112>>
    /\ processed.kind = "dict"
    /\ processed.v.f.Information = <<116, 116, 112>>


(***************************************************************************)
(* C24 In COMM and USLT every character of the decoded body text outside   *)
(*     32..126 is replaced by a placeholder: the text given has the length *)
(*     of the decoded text and holds only printable ASCII and the          *)
(*     placeholder.                                                        *)
(***************************************************************************)
\* a placeholder is a printable character or U+FFFD
Placeholders == 32..126 \cup {65533}

Replaced(s, ph) == [i \in 1..Len(s) |-> IF s[i] \in 32..126 THEN s[i] ELSE ph]

\* the body text: what follows the description, decoded
DecodedBodyText ==
    decode(strip_nul(AfterTerminator(SliceFrom(Payload, 3))), SelectedEncoding, TRUE).s

BodyTextGiven(text) ==
    IF cls = "frames"
    THEN processed.kind = "tuple" /\ processed.v[2] = text
    ELSE processed.kind = "dict"
         /\ processed.v.f[IF instance.id = ID_USLT THEN "Lyrics" ELSE "Text"] = text

C24_PlaceholderReplacement ==
    (processed # NoProcessed /\ instance.id \in LanguageIds)
        => \E ph \in Placeholders : BodyTextGiven(Replaced(DecodedBodyText, ph))

\* what the code does under the one-byte selectors: the text is handed on as decoded
C24_TextUnchanged ==
    (processed # NoProcessed /\ instance.id \in LanguageIds /\ ~WideSelector)
        => BodyTextGiven(DecodedBodyText)

\* "A", 01, E9 in Latin-1: both characters outside 32..126 are still there
C24_Witness ==
    /\ cls = "frames"
    /\ instance.id = ID_COMM
    /\ instance.body = <<0, 101, 110, 103, 0, 65, 1, 233>>
    /\ processed.kind = "tuple"
    /\ processed.v[2] = <<65, 1, 233>>


(***************************************************************************)
(* C25 The stream a Tag opens in __enter__ is closed once the scope has    *)
(*     ended, whether the calls inside it returned a value, returned early *)
(*     for an absent tag, or raised; the stream is open only inside the    *)
(*     scope.                                                              *)
(***************************************************************************)
C25_HandleReleased ==
    /\ pc = "closed" => handle = "closed"
    /\ handle = "open" => pc \in {"idle", "walk"}
    /\ pc = "new" => handle = "none"

\* the scope has ended after a record's decoder raised out of the walk
C25_Witness ==
    /\ pc = "closed"
    /\ handle = "closed"
    /\ last = "raise"
    /\ result.ret = "raise"

\* utils.frame_header: the stream is closed after the call, however it ended
C25_FrameHeaderReleased == result.call = "frame_header" => handle = "closed"


(***************************************************************************)
(* C26 A parse through Tag.get / content_v2 writes no file, whatever the   *)
(*     tag body holds, APIC records included: the walk builds every        *)
(*     decoder with save_image false.  A decoder writes only when it was   *)
(*     built with save_image true.                                         *)
(***************************************************************************)
C26_WalkWritesNothing ==
    \A k \in 1..Len(visited) : visited[k].write = << >>

\* the walk has decoded and stored a picture record
C26_Witness ==
    /\ cls = "frames" /\ WalkEnded
    /\ \E k \in 1..Len(visited) :
           /\ visited[k].id = ID_APIC
           /\ visited[k].act = "merged"
           /\ visited[k].write = << >>
    /\ ID_APIC \in DOMAIN result.v2.frames

\* the decoders on their own: a write needs save_image, and an APIC record
\* that decodes is written when save_image is on
C26_WriteOnlyWhenEnabled ==
    /\ processed.write # << >> => instance.save_image /\ instance.id = ID_APIC
    /\ (/\ instance.save_image
        /\ instance.id = ID_APIC
        /\ processed.kind \in {"tuple", "dict"})
           => processed.write # << >>

C26_DecoderWrote ==
    /\ instance.save_image
    /\ instance.body = Picture(2)
    /\ processed.write = << <<100, 46, 112, 110, 103>>, <<1, 2>> >>


(***************************************************************************)
(* C27 content_v2 looks for the chunked tag in the first 3 bytes of the    *)
(*     file whatever ran before on the same Tag: it reports the tag absent *)
(*     exactly when those bytes are not "ID3", also after content_v1 and   *)
(*     on a second call.                                                   *)
(***************************************************************************)
ContentV2Ended == result.call = "content_v2"

\* the exception content_v2 returns for "no TAGv2 space"
ReportsAbsent == result.ret = "v2" /\ result.v2.kind = "exc"

C27_ChunkedTagAtOffsetZero == ContentV2Ended => (ReportsAbsent <=> NoChunkedTag)

\* the part the code meets: the first call on a freshly opened Tag
C27_FirstCall ==
    (ContentV2Ended /\ ncalls = 1) => (ReportsAbsent <=> NoChunkedTag)

\* a second call has reported a tag absent that the file starts with
C27_Witness ==
    /\ ContentV2Ended
    /\ ncalls = 2
    /\ ~NoChunkedTag
    /\ ReportsAbsent


(***************************************************************************)
(* C28 A record whose declared size exceeds the bytes left in the tag body *)
(*     is fatal to the call: the walk raises instead of decoding the       *)
(*     truncated remainder as the record's body.                           *)
(***************************************************************************)
Oversized == idx + 10 + BE32At(tag_body, idx) > Len(tag_body)

C28_OversizedRecordFatal ==
    [][(RecordAtIdx /\ Oversized) => (pc' = "idle" /\ result'.ret = "raise")]_vars

\* what the code does with such a record when its decoder does not raise:
\* the remainder is decoded and the walk goes on to its end
C28_RemainderDecoded ==
    [][(RecordAtIdx /\ Oversized /\ ProcessedAtIdx.kind # "raise")
       => (/\ pc' = "walk"
           /\ idx' > Len(tag_body)
           /\ ProcessedAtIdx.kind # "None" => IdAtIdx \in DOMAIN frames')]_vars

\* get_v2 has returned a mapping with the entry decoded from a cut record
C28_Witness ==
    /\ cls = "frames" /\ WalkEnded
    /\ result.ret = "v2"
    /\ \E k \in 1..Len(visited) :
           /\ visited[k].act = "merged"
           /\ visited[k].off + 10 + visited[k].size > Len(tag_body)
           /\ visited[k].id \in DOMAIN result.v2.frames


(***************************************************************************)
(* C29 In Tag.get the tag body is read from stream position 10, right      *)
(*     behind the 10-byte header, with or without a legacy tag in the      *)
(*     file: the bytes get_v2 walks are the bytes of the file from offset  *)
(*     10, and the position afterwards is 10 plus what was read.           *)
(***************************************************************************)
InGetWalk == cls = "frames" /\ pc = "walk" /\ call = "get"

BodyAsRead == Slice(file, HeaderLen, pos)

C29_BodyReadAtTen ==
    InGetWalk =>
        /\ pos = Min(Len(file), HeaderLen + synchsafe_get_v2(hdr2))
        /\ tag_body = IF Shr(BitAnd(hdr2[6], 128), 7) # 0
                      THEN rm_unsync(BodyAsRead)
                      ELSE BodyAsRead

\* get_v1 has run before get_v2 and the body read is not empty
C29_Witness ==
    /\ InGetWalk
    /\ v1res.kind = "dict"
    /\ v1arg # None
    /\ tag_body # << >>
    /\ pos > HeaderLen

\* the same without a legacy tag
C29_ChunkedOnly ==
    /\ InGetWalk
    /\ v1res = NoValue
    /\ tag_body # << >>


(***************************************************************************)
(* C30 The walk over the records terminates for every tag body: each       *)
(*     iteration that stays in the loop moves idx forward by at least 10   *)
(*     (the zero-size and the empty-body skips included), so the loop runs *)
(*     at most ceil(len(tag_body) / 10) iterations.                        *)
(***************************************************************************)
\* the iterations run so far: those recorded, and the one that broke out
Iterations == Len(visited) + (IF last = "break" THEN 1 ELSE 0)

CeilTenth(n) == (n + HeaderLen - 1) \div HeaderLen

InWalkCall == pc = "walk" \/ (pc = "idle" /\ call \in {"get", "content_v2"})

C30_WalkTerminates ==
    /\ [][(pc = "walk" /\ pc' = "walk") => idx' >= idx + HeaderLen]_vars
    /\ [](InWalkCall => Iterations <= CeilTenth(Len(tag_body)))

\* a walk that ended after a zero-size skip and an empty-body skip
C30_Witness ==
    /\ WalkEnded
    /\ Len(visited) = 2
    /\ \E k \in 1..2 : visited[k].act = "zero"
    /\ \E k \in 1..2 : visited[k].act = "empty"
    /\ idx >= 2 * HeaderLen

\* a walk that broke out on a short header after as many iterations as the
\* bound allows
C30_BoundMet ==
    /\ WalkEnded /\ last = "break"
    /\ Len(visited) > 0
    /\ Iterations = CeilTenth(Len(tag_body))

====
